---- MODULE Spec2Model ----
(***************************************************************************)
(* Session store and JSON-RPC transport of the MCP system-information      *)
(* server: types.SessionManager, FiberMCPHandler.handleJSONRPCMessage,     *)
(* the Streamable HTTP and Legacy SSE handlers, and the handlers of the    *)
(* earlier net/http revisions kept in main.go.                             *)
(***************************************************************************)
EXTENDS Integers, Sequences, FiniteSets, TLC

(* ---------------------------- bounds ----------------------------------- *)
MaxSec == 1          \* clock seconds 0..MaxSec
MaxStride == 1       \* clock ticks between two reads of time.Now(), 0..MaxStride
MaxCreates == 3      \* CreateSession calls in one behaviour
NCallers == 2        \* concurrent callers of the SessionManager
MaxMsgId == 1        \* JSON-RPC ids 1..MaxMsgId
NSlots == 2          \* initialize requests handled concurrently
MaxStreams == 1      \* SSE streams open at the same time
MaxUuids == 2        \* sessions created by the net/http revisions
MaxEventId == 1      \* events stored per session
MaxMade == 2         \* sessions created through the HTTP endpoints
MaxBatch == 2        \* messages in one array body
MaxStores == 103     \* StoreEvent calls on one session
MaxFrames == 3       \* frames written by the net/http transport
MaxMainConns == 2    \* SSE streams of the net/http transport open at once
NConns == 2          \* SSE connections on one session of the Fiber transport
MaxOpens == 3        \* streams opened on that session
MaxProduced == 2     \* messages sent on that session's SSEChan
MaxSweeps == 2       \* CleanupExpiredSessions calls in one behaviour
MaxFailures == 1      \* sysinfo.Get() failures in one streaming-tool run
MaxSends == 102       \* sendSSEMessage calls that reach the select

(* ----------------------- program constants ----------------------------- *)
RandomLen == 8                 \* randomString(8)
CharsetLen == 62               \* len(charset)
NanosPerSecond == 1000000000   \* time.Second
OutboxCap == 100               \* make(chan interface{}, 100)
PollLag == 1                   \* time.Sleep(10 * time.Millisecond): a tick of
                               \* the ticker is taken within one time unit

(* --------------------------- variables --------------------------------- *)
VARIABLES
  clock,      \* time.Now(): [sec, nsec]
  sessions,   \* SessionManager.sessions: session id -> *Session
  nextObj,    \* next *Session allocated by NewSession
  closedChans,\* the *Session objects whose SSEChan has been closed
  created,    \* history: ids returned by CreateSession, in order
  replaced,   \* history: a CreateSession overwrote a live entry
  mu,         \* SessionManager.mu: [writer, readers]
  callers,    \* goroutines calling the SessionManager directly
  removed,    \* history: ids for which a RemoveSession call has returned
  cell,       \* FiberMCPHandler.lastCreatedSessionID["sessionID"]
  streams,    \* open SSE streams: [conn, sid, obj, auto]
  mainSessions, \* sessions of the net/http revisions (uuid keys)
  nextUuid,   \* next uuid.New() of the net/http revisions
  last,       \* the HTTP exchange completed last: request and reply
  deleted,    \* history: ids a DELETE has removed while they were live
  slots,      \* initialize requests in flight, step by step
  batch,      \* the HTTP exchange of a POST whose body is an array
  evlog,      \* one *Session whose event log is written and read
  lastCall,   \* the last call on evlog and what it returned
  mainConns,  \* open SSE streams of main.go: [conn, sid, auto, eventCounter]
  mainSent,   \* history: the frames main.go has written: [sid, id, data]
  conns,      \* the SSE connections open on evlog, each with its frames
  sseChan,    \* evlog.SSEChan: the messages sent and not yet received
  opens,      \* history: streams opened on evlog, messages sent on SSEChan
  lastSweep,  \* history: the last CleanupExpiredSessions call
  lastGot,    \* history: id -> clock of its last successful GetSession
  outbox,     \* one session of main.go and its SSEChan: [state, closed, buf]
  sender,     \* the goroutine running sendSSEMessage: [pc, err]
  lastSend,   \* history: the last select of sendSSEMessage
  sseEnds,    \* history: ids made by initialize, the last stream that ended
  run,        \* one run of handleSystemMonitorStream on the session evlog
  life,       \* one SSE stream of the Fiber transport: its loop, its timer
  auth        \* the request AuthMiddleware saw last: [path, userAgent, apiKey, passed]

storeVars == <<clock, sessions, nextObj, closedChans, created, replaced>>
coreVars == <<clock, sessions, nextObj, closedChans, created, replaced,
              mu, callers, removed,
              cell, streams, mainSessions, nextUuid, last, deleted, slots>>
logVars == <<evlog, lastCall>>
mainSseVars == <<mainConns, mainSent>>
streamVars == <<conns, sseChan, opens>>
sweepVars == <<lastSweep, lastGot>>
outboxVars == <<outbox, sender, lastSend>>
lateVars == <<outboxVars, sseEnds, run, life, auth>>
earlyVars == <<coreVars, batch, logVars, mainSseVars, streamVars, sweepVars>>
auxVars == <<batch, logVars, mainSseVars, streamVars, sweepVars, lateVars>>
protoVars == <<cell, streams, mainSessions, nextUuid, last, deleted, slots,
               auxVars>>
vars == <<clock, sessions, nextObj, closedChans, created, replaced,
          mu, callers, removed,
          cell, streams, mainSessions, nextUuid, last, deleted, slots,
          batch, evlog, lastCall, mainConns, mainSent,
          conns, sseChan, opens, lastSweep, lastGot,
          outbox, sender, lastSend, sseEnds, run, life, auth>>

(* ------------------------------ time ----------------------------------- *)
\* The clock is read, never set, by the program. Between two reads it shows
\* the same value (the reads fall inside one tick of the clock) or a later
\* one; nsec counts the ticks inside the current second.
MaxNsec == RandomLen * MaxStride

Time0 == [sec |-> 0, nsec |-> 0]

\* t + d nanoseconds (d small: never crosses a second in the model)
AddNsec(t, d) == [sec |-> t.sec, nsec |-> t.nsec + d]

\* time.Now().UnixNano() % int64(len(charset)); the residue is computed
\* factor by factor so that the product stays within TLC's integers
UnixNanoMod(t) ==
  (((t.sec % CharsetLen) * (NanosPerSecond % CharsetLen)) + t.nsec) % CharsetLen

\* time.Now().Format("20060102_150405_"): the wall clock cut to the second
FormatSecond(t) == t.sec

(* --------------------------- session ids ------------------------------- *)
\* A session id is a sequence of naturals: the formatted second followed by
\* the indices into charset of the RandomLen characters.
NoSession == << >>                   \* "" : no Mcp-Session-Id
UnknownSession == <<MaxSec + 7>>     \* an id the server never issued

\* randomString(length): character i is charset[UnixNano() % len(charset)]
\* at the i-th read of the clock; the clock advances stride between reads
randomString(length, t, stride) ==
  [i \in 1..length |-> UnixNanoMod(AddNsec(t, i * stride))]

\* generateSessionID: "session_" + second + randomString(8)
generateSessionID(t, stride) ==
  <<FormatSecond(t)>> \o randomString(RandomLen, t, stride)

\* the clock after generateSessionID has read it
ClockAfter(t, stride) == AddNsec(t, RandomLen * stride)

\* strides the clock may take while staying inside the modelled second
Strides(t) == {s \in 0..MaxStride : t.nsec + RandomLen * s <= MaxNsec}

(* ----------------------------- Session --------------------------------- *)
MaxEvents == 100     \* Session.maxEvents

\* NewSession(id): a fresh *Session with an empty event log; its SSEChan is
\* open (the closed channels are the objects in closedChans)
NewSession(id, o, t) ==
  [ID |-> id, obj |-> o, CreatedAt |-> t, LastActivity |-> t,
   eventCounter |-> 0, storedEvents |-> << >>]

\* Session.UpdateActivity
UpdateActivity(s, t) == [s EXCEPT !.LastActivity = t]

\* StoreEvent that numbers the event and leaves the counter where it was
StoreEvent_nocount(s, data) ==
  LET n == s.eventCounter + 1
  IN [s EXCEPT !.storedEvents = Append(s.storedEvents, [ID |-> n, Data |-> data])]

\* StoreEvent that never drops an event
StoreEvent_notrim(s, data) ==
  LET n == s.eventCounter + 1
  IN [s EXCEPT !.eventCounter = n,
               !.storedEvents = Append(s.storedEvents, [ID |-> n, Data |-> data])]

\* Session.StoreEvent: number the event, append it, keep the last maxEvents
StoreEvent(s, data) ==
  LET n   == s.eventCounter + 1
      all == Append(s.storedEvents, [ID |-> n, Data |-> data])
  IN [s EXCEPT !.eventCounter = n,
               !.storedEvents = IF Len(all) > MaxEvents
                                  THEN SubSeq(all, Len(all) - MaxEvents + 1, Len(all))
                                  ELSE all]

\* GetEventsAfter that also returns the event numbered lastEventID
GetEventsAfter_inclusive(s, lastEventID) ==
  SelectSeq(s.storedEvents, LAMBDA event : event.ID >= lastEventID)

\* Session.GetEventsAfter: the loop over storedEvents, from the oldest,
\* appending every event whose ID is greater than lastEventID
GetEventsAfter(s, lastEventID) ==
  SelectSeq(s.storedEvents, LAMBDA event : event.ID > lastEventID)

(* ------------------------- the session table --------------------------- *)
Put(tbl, id, s) ==
  [k \in (DOMAIN tbl) \cup {id} |-> IF k = id THEN s ELSE tbl[k]]

Del(tbl, id) == [k \in (DOMAIN tbl) \ {id} |-> tbl[k]]

EmptyTable == [k \in {} |-> 0]

\* The SessionManager together with the clock it reads and the channels it
\* has closed, as one value: tbl = sm.sessions, clk = time.Now(), nobj = the
\* next *Session, log / repl = the history of CreateSession, closed = the
\* sessions whose SSEChan is closed, ret = the last returned id.
Store ==
  [tbl |-> sessions, clk |-> clock, nobj |-> nextObj, log |-> created,
   repl |-> replaced, closed |-> closedChans, ret |-> NoSession]

\* CreateSession returning the id without storing the session under it
CreateSession_unstored(st, stride) ==
  LET id == generateSessionID(st.clk, stride)
      t  == ClockAfter(st.clk, stride)
  IN [st EXCEPT !.clk = t,
                !.nobj = st.nobj + 1,
                !.log = Append(st.log, id),
                !.ret = id]

\* SessionManager.CreateSession: generate the id, allocate the session,
\* store it under the id (whatever is already stored there), return the id
CreateSession(st, stride) ==
  LET id == generateSessionID(st.clk, stride)
      t  == ClockAfter(st.clk, stride)
  IN [st EXCEPT !.tbl = Put(st.tbl, id, NewSession(id, st.nobj, t)),
                !.clk = t,
                !.nobj = st.nobj + 1,
                !.log = Append(st.log, id),
                !.repl = (st.repl \/ id \in DOMAIN st.tbl),
                !.ret = id]

\* SessionManager.GetSession: the lookup refreshes LastActivity when found
GetSession(st, id) ==
  IF id \in DOMAIN st.tbl
    THEN [st EXCEPT !.tbl[id] = UpdateActivity(@, st.clk)]
    ELSE st

\* Session.Close called by RemoveSession on a found entry: close(s.SSEChan)
Close(st, id) ==
  IF id \in DOMAIN st.tbl
    THEN [st EXCEPT !.closed = @ \cup {st.tbl[id].obj}]
    ELSE st

\* RemoveSession that closes the found session and keeps its entry
RemoveSession_keep(st, id) == Close(st, id)

\* SessionManager.RemoveSession: close the found session, delete its entry
RemoveSession(st, id) == [Close(st, id) EXCEPT !.tbl = Del(st.tbl, id)]

\* now.Sub(t) in nanoseconds
Sub(now, t) == (now.sec - t.sec) * NanosPerSecond + (now.nsec - t.nsec)

RECURSIVE CloseAll(_, _)
CloseAll(st, ids) ==
  IF ids = {} THEN st
  ELSE LET id == CHOOSE x \in ids : TRUE
       IN CloseAll(Close(st, id), ids \ {id})

\* CleanupExpiredSessions that also removes a session idle for maxAge exactly
CleanupExpiredSessions_atleast(st, maxAge) ==
  LET now     == st.clk
      expired == {id \in DOMAIN st.tbl :
                    Sub(now, st.tbl[id].LastActivity) >= maxAge}
  IN [CloseAll(st, expired) EXCEPT
        !.tbl = [id \in (DOMAIN st.tbl) \ expired |-> st.tbl[id]]]

\* SessionManager.CleanupExpiredSessions(maxAge): under sm.mu, every session
\* with now.Sub(session.LastActivity) > maxAge is closed and deleted
CleanupExpiredSessions(st, maxAge) ==
  LET now     == st.clk
      expired == {id \in DOMAIN st.tbl :
                    Sub(now, st.tbl[id].LastActivity) > maxAge}
  IN [CloseAll(st, expired) EXCEPT
        !.tbl = [id \in (DOMAIN st.tbl) \ expired |-> st.tbl[id]]]

(* ------------------- SessionManager under its RWMutex ------------------ *)
Callers == 1..NCallers

IdleCaller == [pc |-> "idle", op |-> "none", arg |-> NoSession,
               afterRemove |-> FALSE, found |-> FALSE, ret |-> NoSession,
               obj |-> 0, torn |-> FALSE]

\* ids a caller may pass: issued ids and one that was never issued
ArgChoices == {created[i] : i \in 1..Len(created)} \cup {UnknownSession}

\* a goroutine calls CreateSession and waits for sm.mu.Lock()
CallCreate(c) ==
  /\ callers[c].pc \in {"idle", "ret"}
  /\ Len(created) + Cardinality({d \in Callers : callers[d].op = "create"
                                   /\ callers[d].pc \in {"lock", "held"}}) < MaxCreates
  /\ callers' = [callers EXCEPT ![c] =
        [IdleCaller EXCEPT !.pc = "lock", !.op = "create"]]
  /\ UNCHANGED <<storeVars, mu, removed, protoVars>>

\* a goroutine calls GetSession(id) and waits for sm.mu.RLock()
CallGet(c) ==
  /\ callers[c].pc \in {"idle", "ret"}
  /\ \E id \in ArgChoices :
       callers' = [callers EXCEPT ![c] =
          [IdleCaller EXCEPT !.pc = "lock", !.op = "get", !.arg = id,
                             !.afterRemove = (id \in removed)]]
  /\ UNCHANGED <<storeVars, mu, removed, protoVars>>

\* a goroutine calls RemoveSession(id) and waits for sm.mu.Lock()
CallRemove(c) ==
  /\ callers[c].pc \in {"idle", "ret"}
  /\ \E id \in ArgChoices :
       callers' = [callers EXCEPT ![c] =
          [IdleCaller EXCEPT !.pc = "lock", !.op = "remove", !.arg = id]]
  /\ UNCHANGED <<storeVars, mu, removed, protoVars>>

\* sm.mu.Lock(): no writer and no reader holds the mutex
CanLock == mu.writer = 0 /\ mu.readers = {}

\* sm.mu.RLock(): no writer holds the mutex
CanRLock == mu.writer = 0

\* the caller acquires the mutex in the mode its operation asks for
Acquire(c) ==
  /\ callers[c].pc = "lock"
  /\ IF callers[c].op = "get"
       THEN /\ CanRLock
            /\ mu' = [mu EXCEPT !.readers = @ \cup {c}]
       ELSE /\ CanLock
            /\ mu' = [mu EXCEPT !.writer = c]
  /\ callers' = [callers EXCEPT ![c].pc = "held"]
  /\ UNCHANGED <<storeVars, removed, protoVars>>

\* the store variables take the values of st
SetStore(st) ==
  /\ sessions' = st.tbl
  /\ clock' = st.clk
  /\ nextObj' = st.nobj
  /\ created' = st.log
  /\ replaced' = st.repl
  /\ closedChans' = st.closed

\* CreateSession body and deferred Unlock
StoreCreate(c) ==
  /\ callers[c].pc = "held" /\ callers[c].op = "create"
  /\ \E stride \in Strides(clock) :
       LET st == CreateSession(Store, stride)
       IN /\ SetStore(st)
          /\ callers' = [callers EXCEPT ![c].pc = "ret", ![c].ret = st.ret]
  /\ mu' = [mu EXCEPT !.writer = 0]
  /\ UNCHANGED <<removed, protoVars>>

\* GetSession body and deferred RUnlock: return (session, exists)
StoreGet(c) ==
  /\ callers[c].pc = "held" /\ callers[c].op = "get"
  /\ LET id == callers[c].arg IN
       /\ SetStore(GetSession(Store, id))
       /\ IF id \in DOMAIN sessions
            THEN callers' = [callers EXCEPT ![c].pc = "ret", ![c].found = TRUE,
                                ![c].ret = sessions[id].ID,
                                ![c].obj = sessions[id].obj,
                                ![c].torn = (sessions[id].obj \in closedChans)]
            ELSE callers' = [callers EXCEPT ![c].pc = "ret", ![c].found = FALSE]
  /\ mu' = [mu EXCEPT !.readers = @ \ {c}]
  /\ UNCHANGED <<removed, protoVars>>

\* RemoveSession, first half: session.Close() on a found entry
StoreRemoveClose(c) ==
  /\ callers[c].pc = "held" /\ callers[c].op = "remove"
  /\ SetStore(Close(Store, callers[c].arg))
  /\ callers' = [callers EXCEPT ![c].pc = "closed"]
  /\ UNCHANGED <<mu, removed, protoVars>>

\* RemoveSession, second half: delete(sm.sessions, id), deferred Unlock
StoreRemoveDelete(c) ==
  /\ callers[c].pc = "closed"
  /\ SetStore([Store EXCEPT !.tbl = Del(sessions, callers[c].arg)])
  /\ removed' = removed \cup {callers[c].arg}
  /\ callers' = [callers EXCEPT ![c].pc = "ret"]
  /\ mu' = [mu EXCEPT !.writer = 0]
  /\ UNCHANGED protoVars

\* the wall clock reaches the next second
NextSecond ==
  /\ clock.sec < MaxSec
  /\ clock' = [sec |-> clock.sec + 1, nsec |-> 0]
  /\ UNCHANGED <<sessions, nextObj, created, replaced, closedChans,
                 mu, callers, removed, protoVars>>

(* ------------------------- JSON-RPC messages --------------------------- *)
NoId == 0            \* the message has no "id" key
MsgIds == 1..MaxMsgId

\* "nonstring": the "method" key holds a value that is not a string;
\* "nomethod": the message has no "method" key
Methods == {"initialize", "tools/list", "tools/call",
            "notifications/initialized", "ping"}

\* the tools registered in main
ToolNames == {"get_system_info", "system_monitor_stream"}

\* params.name of a tools/call: a registered name, an unregistered name,
\* params without a string name, or no params object at all
ToolArgs == ToolNames \cup {"unknown_tool", "noname", "noparams"}

NoMsg == [method |-> "nomethod", id |-> NoId, tool |-> "none"]

Msgs ==
  {[method |-> me, id |-> i, tool |-> "none"] :
      me \in (Methods \ {"tools/call"}) \cup {"nonstring", "nomethod"},
      i \in 0..MaxMsgId}
  \cup {[method |-> "tools/call", id |-> i, tool |-> t] :
      i \in 0..MaxMsgId, t \in ToolArgs}

\* _, hasMethod := msg["method"]
HasMethodKey(m) == m.method # "nomethod"

\* method, hasMethod := request["method"].(string)
HasMethod(m) == m.method \notin {"nomethod", "nonstring"}

\* method, _ := request["method"].(string)
MethodString(m) == IF HasMethod(m) THEN m.method ELSE ""

\* _, hasID := request["id"]
HasID(m) == m.id # NoId

\* a request: a message with both an id key and a method key
IsRequest(m) == HasID(m) /\ HasMethodKey(m)

(* JSON-RPC error codes *)
InvalidRequest == -32600
MethodNotFound == -32601
InvalidParams == -32602
InternalError == -32603
SessionNotFound == -32001

NilResp == [kind |-> "nil", id |-> NoId, code |-> 0, what |-> "none"]
Result(id, what) == [kind |-> "result", id |-> id, code |-> 0, what |-> what]
Error(id, code, what) == [kind |-> "error", id |-> id, code |-> code, what |-> what]

(* ------------------------ FiberMCPHandler ------------------------------ *)
\* handleToolsListRequest: the static tool catalog
handleToolsListRequest(m) == Result(m.id, "tools")

\* handleToolCallRequest running the handler of a name it never looked up
handleToolCallRequest_nolookup(m, toolOk) ==
  IF m.tool = "noparams" THEN Error(m.id, InvalidParams, "Invalid params")
  ELSE IF m.tool = "noname" THEN Error(m.id, InvalidParams, "Missing tool name")
  ELSE IF toolOk /\ m.tool \in ToolNames THEN Result(m.id, "content")
  ELSE Error(m.id, InternalError, "Error executing tool")

\* handleToolCallRequest; toolOk: the tool handler returned without error
handleToolCallRequest(m, toolOk) ==
  IF m.tool = "noparams" THEN Error(m.id, InvalidParams, "Invalid params")
  ELSE IF m.tool = "noname" THEN Error(m.id, InvalidParams, "Missing tool name")
  ELSE IF m.tool \in ToolNames
    THEN IF toolOk THEN Result(m.id, "content")
                   ELSE Error(m.id, InternalError, "Error executing tool")
  ELSE Error(m.id, MethodNotFound, "Tool not found")

\* the response of handleInitializeRequest
handleInitializeRequest(m) == Result(m.id, "init")

\* handleJSONRPCMessage: the response to one message; exists is the outcome
\* of sessionManager.GetSession(sessionID)
handleJSONRPCMessage(m, exists, toolOk) ==
  IF ~HasMethod(m) THEN NilResp
  ELSE IF m.method = "initialize" THEN handleInitializeRequest(m)
  ELSE IF ~exists
    THEN IF HasID(m) THEN Error(m.id, SessionNotFound, "Session not found")
                     ELSE NilResp
  ELSE IF m.method = "tools/list"
    THEN IF ~HasID(m) THEN NilResp ELSE handleToolsListRequest(m)
  ELSE IF m.method = "tools/call"
    THEN IF ~HasID(m) THEN NilResp ELSE handleToolCallRequest(m, toolOk)
  ELSE IF HasID(m) THEN Error(m.id, MethodNotFound, "Method not found")
                   ELSE NilResp

IsInitialize(m) == HasMethod(m) /\ m.method = "initialize"

\* what handleJSONRPCMessage does to the SessionManager: initialize creates
\* a session whatever sessionID is, every other method looks sessionID up
DispatchStore(st, m, h, stride) ==
  IF ~HasMethod(m) THEN st
  ELSE IF m.method = "initialize" THEN CreateSession(st, stride)
  ELSE GetSession(st, h)

\* lastCreatedSessionID after handleJSONRPCMessage: initialize stores the id
DispatchCell(st, m, c) == IF IsInitialize(m) THEN st.ret ELSE c

(* ----------------------------- exchanges ------------------------------- *)
Accepts == {"json", "sse", "none"}  \* "sse" also stands for "json and sse"

\* header values a client may send to the Fiber handlers
HdrChoices == {NoSession, UnknownSession} \cup {created[i] : i \in 1..Len(created)}

Uuid(n) == <<1000 + n>>

\* header values a client may send to the net/http revisions
MainHdrChoices == {NoSession, UnknownSession} \cup {Uuid(n) : n \in 1..(nextUuid - 1)}

\* one HTTP exchange: the request (ep, msg, hdr, accept) and, once the
\* handler has returned, the reply (status, body, out, respHdr, bodySid)
\* together with what the handler did (called, resp, initSid, made, changed)
\* and whether hdr named a live session when the handler started (hdrLive)
NoExchange ==
  [phase |-> "idle", ep |-> "none", msg |-> NoMsg, hdr |-> NoSession,
   accept |-> "none", hdrLive |-> FALSE,
   called |-> FALSE, resp |-> NilResp,
   status |-> 0, body |-> "none", out |-> NilResp,
   respHdr |-> NoSession, bodySid |-> NoSession,
   initSid |-> NoSession, made |-> 0, changed |-> FALSE]

Request(ep, m, h, a) ==
  [NoExchange EXCEPT !.phase = "req", !.ep = ep, !.msg = m, !.hdr = h,
                     !.accept = a]

\* the handler of endpoint ep has a request to serve
Serving(ep) == last.phase = "req" /\ last.ep = ep

\* a request that makes HandlePost answer on an SSE stream
AnswersOnStream(m, a) == a = "sse" /\ IsRequest(m) /\ HasMethod(m)

\* the CreateSession calls a Fiber handler makes for a request
NeedCreates(ep, m, h, a) ==
  (IF ep \in {"streamable_post", "legacy_post"} /\ IsInitialize(m)
      /\ ~(ep = "streamable_post" /\ a = "none") THEN 1 ELSE 0)
  + (IF h = NoSession
        /\ \/ ep = "streamable_get" /\ a = "sse"
           \/ ep = "streamable_post" /\ AnswersOnStream(m, a) THEN 1 ELSE 0)

OpensStream(ep, m, a) ==
  \/ ep = "streamable_get" /\ a = "sse"
  \/ ep = "streamable_post" /\ AnswersOnStream(m, a)

\* a client sends a request to one of the Fiber endpoints
Receive ==
  /\ last.phase = "idle"
  /\ \E h \in HdrChoices :
       \/ \E m \in Msgs, a \in Accepts :
            /\ Len(created) + NeedCreates("streamable_post", m, h, a) <= MaxMade
            /\ OpensStream("streamable_post", m, a) =>
                 /\ Cardinality(streams) < MaxStreams
                 /\ h \in DOMAIN sessions => sessions[h].eventCounter < MaxEventId
            /\ last' = Request("streamable_post", m, h, a)
       \/ \E m \in Msgs :
            /\ Len(created) + NeedCreates("legacy_post", m, h, "json") <= MaxMade
            /\ last' = Request("legacy_post", m, h, "json")
       \/ \E a \in {"json", "sse"} :
            /\ Len(created) + NeedCreates("streamable_get", NoMsg, h, a) <= MaxMade
            /\ OpensStream("streamable_get", NoMsg, a) =>
                 Cardinality(streams) < MaxStreams
            /\ last' = Request("streamable_get", NoMsg, h, a)
       \/ last' = Request("streamable_delete", NoMsg, h, "none")
  /\ UNCHANGED <<storeVars, mu, callers, removed, cell, streams, mainSessions,
                 nextUuid, deleted, slots, auxVars>>

\* the client has read the reply
Deliver ==
  /\ last.phase = "done"
  /\ last' = NoExchange
  /\ UNCHANGED <<storeVars, mu, callers, removed, cell, streams, mainSessions,
                 nextUuid, deleted, slots, auxVars>>

FreeConn == CHOOSE n \in 1..(Cardinality(streams) + 1) : \A x \in streams : x.conn # n

\* the handler returns with the exchange ex, leaving the SessionManager as st
CommitDeleted(st, c, ss, ex, d) ==
  /\ SetStore(st)
  /\ cell' = c
  /\ streams' = ss
  /\ deleted' = d
  /\ last' = [ex EXCEPT !.phase = "done",
                        !.hdrLive = (ex.hdr \in DOMAIN sessions),
                        !.made = Len(st.log) - Len(created),
                        !.changed = (DOMAIN st.tbl # DOMAIN sessions)]
  /\ UNCHANGED <<mu, callers, removed, mainSessions, nextUuid, slots, auxVars>>

Commit(st, c, ss, ex) == CommitDeleted(st, c, ss, ex, deleted)

\* session.StoreEvent for each initial response, in order
RECURSIVE StoreEvents(_, _)
StoreEvents(s, rs) ==
  IF rs = << >> THEN s
  ELSE StoreEvents(StoreEvent(s, Head(rs).id), Tail(rs))

\* streamable.Handler.HandleSSE up to the start of the stream loop: without
\* a session id a session is created for the connection and named in the
\* response header; an id that does not resolve ends the request with 404
HandleSSE(st, h, hdrOut, responses, stride) ==
  LET auto == (h = NoSession)
      st1  == IF auto THEN CreateSession(st, stride) ELSE st
      sid  == IF auto THEN st1.ret ELSE h
      hdr1 == IF auto THEN sid ELSE hdrOut
      st2  == GetSession(st1, sid)
  IN IF sid \notin DOMAIN st1.tbl
       THEN [st |-> st2, status |-> 404, body |-> "text", respHdr |-> hdr1,
             stream |-> {}]
       ELSE [st |-> [st2 EXCEPT !.tbl[sid] = StoreEvents(@, responses)],
             status |-> 200, body |-> "sse", respHdr |-> hdr1,
             stream |-> {[conn |-> FreeConn, sid |-> sid,
                          obj |-> st2.tbl[sid].obj, auto |-> auto]}]

\* streamable.Handler.HandlePost with a body of one message
StreamablePost ==
  /\ Serving("streamable_post")
  /\ LET m == last.msg
         h == last.hdr
         a == last.accept
     IN
     \E toolOk \in (IF m.tool \in ToolNames /\ h \in DOMAIN sessions /\ a # "none"
                       /\ HasID(m)
                    THEN BOOLEAN ELSE {TRUE}) :
     \E s1 \in (IF IsInitialize(m) /\ a # "none" THEN Strides(clock) ELSE {0}) :
       LET st1   == DispatchStore(Store, m, h, s1)
           resp  == handleJSONRPCMessage(m, h \in DOMAIN sessions, toolOk)
           cell1 == DispatchCell(st1, m, cell)
           ex1   == [last EXCEPT !.called = TRUE, !.resp = resp,
                        !.initSid = IF IsInitialize(m) THEN st1.ret ELSE NoSession]
           \* the id found in lastCreatedSessionID goes to the response header
           \* and to result.sessionId, and the cell is cleared
           loadOk == IsInitialize(m) /\ resp.kind = "result" /\ cell1 # NoSession
           hdr1  == IF loadOk THEN cell1 ELSE NoSession
           cell2 == IF loadOk THEN NoSession ELSE cell1
           responses == IF resp = NilResp THEN << >> ELSE <<resp>>
       IN
       IF a = "none"
         THEN Commit(Store, cell, streams, [last EXCEPT !.status = 406, !.body = "text"])
       ELSE IF ~IsRequest(m)
         THEN Commit(st1, cell1, streams, [ex1 EXCEPT !.status = 202])
       ELSE IF a = "sse" /\ Len(responses) > 0
         THEN \E s2 \in (IF h = NoSession THEN Strides(st1.clk) ELSE {0}) :
                LET r == HandleSSE(st1, h, hdr1, responses, s2)
                IN Commit(r.st, cell2, streams \cup r.stream,
                          [ex1 EXCEPT !.status = r.status, !.body = r.body,
                             !.out = IF r.status = 200 THEN resp ELSE NilResp,
                             !.respHdr = r.respHdr,
                             !.bodySid = IF r.status = 200 THEN hdr1 ELSE NoSession])
       ELSE Commit(st1, cell2, streams,
                   [ex1 EXCEPT !.status = 200,
                      !.body = IF Len(responses) = 1 THEN "json" ELSE "array",
                      !.out = resp, !.respHdr = hdr1, !.bodySid = hdr1])

\* streamable.Handler.HandleGet
StreamableGet ==
  /\ Serving("streamable_get")
  /\ IF last.accept = "sse"
       THEN \E s2 \in (IF last.hdr = NoSession THEN Strides(clock) ELSE {0}) :
              LET r == HandleSSE(Store, last.hdr, NoSession, << >>, s2)
              IN Commit(r.st, cell, streams \cup r.stream,
                        [last EXCEPT !.status = r.status, !.body = r.body,
                                     !.respHdr = r.respHdr])
       ELSE Commit(Store, cell, streams, [last EXCEPT !.status = 200, !.body = "json"])

\* streamable.Handler.HandleDelete
StreamableDelete ==
  /\ Serving("streamable_delete")
  /\ CommitDeleted(IF last.hdr # NoSession THEN RemoveSession(Store, last.hdr)
                                           ELSE Store,
                   cell, streams, [last EXCEPT !.status = 204],
                   IF last.hdr \in DOMAIN sessions THEN deleted \cup {last.hdr}
                                                   ELSE deleted)

\* sse.Handler.HandlePost (Legacy SSE)
LegacyPost ==
  /\ Serving("legacy_post")
  /\ LET m == last.msg
         h == last.hdr
     IN
     \E toolOk \in (IF m.tool \in ToolNames /\ h \in DOMAIN sessions /\ HasID(m)
                    THEN BOOLEAN ELSE {TRUE}) :
     \E s1 \in (IF IsInitialize(m) THEN Strides(clock) ELSE {0}) :
       LET st1   == DispatchStore(Store, m, h, s1)
           resp  == handleJSONRPCMessage(m, h \in DOMAIN sessions, toolOk)
           cell1 == DispatchCell(st1, m, cell)
           ex1   == [last EXCEPT !.called = TRUE, !.resp = resp,
                        !.initSid = IF IsInitialize(m) THEN st1.ret ELSE NoSession]
           loadOk == MethodString(m) = "initialize" /\ resp.kind = "result"
                     /\ cell1 # NoSession
           hdr1  == IF loadOk THEN cell1 ELSE NoSession
           cell2 == IF loadOk THEN NoSession ELSE cell1
       IN
       IF MethodString(m) \notin {"initialize", "notifications/initialized"}
          /\ h = NoSession
         THEN Commit(Store, cell, streams,
                     [last EXCEPT !.status = 400, !.body = "json",
                        !.out = Error(m.id, SessionNotFound,
                                      "Missing Mcp-Session-Id header")])
       ELSE IF resp # NilResp
         THEN Commit(st1, cell2, streams,
                     [ex1 EXCEPT !.status = 200, !.body = "json",
                        !.out = resp, !.respHdr = hdr1, !.bodySid = hdr1])
       ELSE Commit(st1, cell1, streams, [ex1 EXCEPT !.status = 202])

\* the stream's timeout goroutine fires: a session created for the
\* connection is removed, done is closed and the stream loop returns
StreamTimeout ==
  \E x \in streams :
    /\ SetStore(IF x.auto THEN RemoveSession(Store, x.sid) ELSE Store)
    /\ streams' = streams \ {x}
    /\ UNCHANGED <<mu, callers, removed, cell, mainSessions, nextUuid, last,
                   deleted, slots, auxVars>>

\* the stream loop finds session.SSEChan closed and returns
StreamChanClosed ==
  \E x \in streams :
    /\ x.obj \in closedChans
    /\ streams' = streams \ {x}
    /\ UNCHANGED <<storeVars, mu, callers, removed, cell, mainSessions,
                   nextUuid, last, deleted, slots, auxVars>>

(* ---------------- the net/http revisions kept in main.go --------------- *)
\* a client sends a request to a net/http revision
ReceiveMain ==
  /\ last.phase = "idle"
  /\ \E h \in MainHdrChoices :
       \/ \E m \in Msgs :
            /\ (h = NoSession /\ m.method \in {"initialize", "tools/list", "tools/call"})
                 => nextUuid <= MaxUuids
            /\ last' = Request("main_post", m, h, "json")
       \/ \E ep \in {"main_delete", "part_delete"} :
            last' = Request(ep, NoMsg, h, "none")
  /\ UNCHANGED <<storeVars, mu, callers, removed, cell, streams, mainSessions,
                 nextUuid, deleted, slots, auxVars>>

\* the handler of a net/http revision returns with the exchange ex
CommitMain(tbl, n, ex) ==
  /\ mainSessions' = tbl
  /\ nextUuid' = n
  /\ last' = [ex EXCEPT !.phase = "done", !.made = n - nextUuid,
                        !.hdrLive = (ex.hdr \in mainSessions),
                        !.changed = (tbl # mainSessions)]
  /\ UNCHANGED <<storeVars, mu, callers, removed, cell, streams, deleted, slots, auxVars>>

\* MCPHandler.handleToolCall of main.go: only get_system_info is known
mainHandleToolCall(m, toolOk) ==
  IF m.tool = "noparams" THEN Error(m.id, InvalidParams, "Invalid params")
  ELSE IF m.tool # "get_system_info" THEN Error(m.id, MethodNotFound, "Tool not found")
  ELSE IF toolOk THEN Result(m.id, "content")
  ELSE Error(m.id, InternalError, "Error executing tool")

\* MCPHandler.handleJSONRPC of main.go (POST /, one message, JSON reply)
MainPost ==
  /\ Serving("main_post")
  /\ LET m == last.msg
         h == last.hdr
     IN
     \E toolOk \in (IF m.tool = "get_system_info" THEN BOOLEAN ELSE {TRUE}) :
       LET new == Uuid(nextUuid)
           autoCreate == h = NoSession /\ m.method \in {"tools/list", "tools/call"}
           sid == IF autoCreate THEN new ELSE h
           tbl == IF autoCreate THEN mainSessions \cup {new} ELSE mainSessions
           n   == IF autoCreate THEN nextUuid + 1 ELSE nextUuid
           hdr1 == IF autoCreate THEN new ELSE NoSession
           reply(r) == [last EXCEPT !.called = TRUE, !.resp = r, !.status = 200,
                                    !.body = "json", !.out = r, !.respHdr = hdr1]
       IN
       IF ~HasMethod(m)
         THEN CommitMain(mainSessions, nextUuid,
                         [last EXCEPT !.status = 400, !.body = "text"])
       ELSE IF m.method = "initialize"
         THEN IF h # NoSession
                THEN CommitMain(mainSessions, nextUuid,
                       reply(Error(m.id, InvalidRequest, "Initialize with Mcp-Session-Id")))
                ELSE CommitMain(mainSessions \cup {new}, nextUuid + 1,
                       [reply(Result(m.id, "init")) EXCEPT !.respHdr = new,
                                                           !.initSid = new])
       ELSE IF h = NoSession /\ ~autoCreate
         THEN CommitMain(mainSessions, nextUuid,
                reply(Error(m.id, InvalidRequest, "Missing Mcp-Session-Id")))
       ELSE IF sid \notin tbl
         THEN CommitMain(tbl, n, reply(Error(m.id, InvalidRequest, "Invalid Mcp-Session-Id")))
       ELSE IF m.method = "tools/list"
         THEN CommitMain(tbl, n, reply(Result(m.id, "tools")))
       ELSE IF m.method = "tools/call"
         THEN CommitMain(tbl, n, reply(mainHandleToolCall(m, toolOk)))
       ELSE IF ~HasID(m)
         THEN CommitMain(tbl, n, [last EXCEPT !.called = TRUE, !.status = 202])
       ELSE CommitMain(tbl, n, reply(Error(m.id, MethodNotFound, "Method not found")))

\* MCPHandler.handleStreamableHTTPDelete of main.go
MainDelete ==
  /\ Serving("main_delete")
  /\ IF last.hdr = NoSession
       THEN CommitMain(mainSessions, nextUuid,
                       [last EXCEPT !.status = 400, !.body = "text"])
       ELSE CommitMain(mainSessions \ {last.hdr}, nextUuid,
                       [last EXCEPT !.status = 200, !.body = "json"])

\* MCPHandler.handleMCPDelete of the revision before it
PartDelete ==
  /\ Serving("part_delete")
  /\ IF last.hdr = NoSession
       THEN CommitMain(mainSessions, nextUuid,
                       [last EXCEPT !.status = 400, !.body = "text"])
     ELSE IF last.hdr \notin mainSessions
       THEN CommitMain(mainSessions, nextUuid,
                       [last EXCEPT !.status = 404, !.body = "text"])
     ELSE CommitMain(mainSessions \ {last.hdr}, nextUuid, [last EXCEPT !.status = 204])

(* ------------- initialize requests handled concurrently ---------------- *)
\* Each slot is a goroutine serving one initialize request that carries no
\* Mcp-Session-Id, on POST / (JSON reply) or POST /sse. It runs
\* handleInitializeRequest (CreateSession, then lastCreatedSessionID.Store)
\* and then the transport's Load, header and result.sessionId, Delete.
\* mine: the id CreateSession returned to this request; loaded: whether Load
\* found a value; got: the id put in the response header and result.sessionId
Slots == 1..NSlots

RaceEndpoints == {"streamable_post", "legacy_post"}

IdleSlot == [pc |-> "idle", ep |-> "none", mine |-> NoSession,
             loaded |-> FALSE, got |-> NoSession]

raceUnchanged == <<mu, callers, removed, streams, mainSessions, nextUuid,
                   last, deleted, auxVars>>

\* an initialize request arrives and its handler starts
RaceBegin(s) ==
  /\ slots[s].pc \in {"idle", "done"}
  /\ Len(created) + Cardinality({x \in Slots : slots[x].pc = "create"}) < MaxMade
  /\ \E ep \in RaceEndpoints :
       slots' = [slots EXCEPT ![s] = [IdleSlot EXCEPT !.pc = "create", !.ep = ep]]
  /\ UNCHANGED <<storeVars, cell, raceUnchanged>>

\* handleInitializeRequest: sessionID := h.sessionManager.CreateSession()
RaceCreate(s) ==
  /\ slots[s].pc = "create"
  /\ \E stride \in Strides(clock) :
       LET st == CreateSession(Store, stride)
       IN /\ SetStore(st)
          /\ slots' = [slots EXCEPT ![s].pc = "store", ![s].mine = st.ret]
  /\ UNCHANGED <<cell, raceUnchanged>>

\* handleInitializeRequest: h.lastCreatedSessionID.Store("sessionID", sessionID)
RaceStore(s) ==
  /\ slots[s].pc = "store"
  /\ cell' = slots[s].mine
  /\ slots' = [slots EXCEPT ![s].pc = "load"]
  /\ UNCHANGED <<storeVars, raceUnchanged>>

\* HandlePost: storedSessionID, ok := lastCreatedSessionID.Load("sessionID");
\* when ok the id goes to the header and to result.sessionId
RaceLoad(s) ==
  /\ slots[s].pc = "load"
  /\ slots' = [slots EXCEPT ![s].pc = IF cell # NoSession THEN "delete" ELSE "done",
                            ![s].loaded = (cell # NoSession),
                            ![s].got = cell]
  /\ UNCHANGED <<storeVars, cell, raceUnchanged>>

\* HandlePost: lastCreatedSessionID.Delete("sessionID"), then the reply
RaceDelete(s) ==
  /\ slots[s].pc = "delete"
  /\ cell' = NoSession
  /\ slots' = [slots EXCEPT ![s].pc = "done"]
  /\ UNCHANGED <<storeVars, raceUnchanged>>

(* ------------- streamable.Handler.HandlePost, array bodies ------------- *)
\* the messages of an array: the message at position i carries the id i or
\* no id; of the tool calls an array holds the ones that name a known tool
BatchMsgs(i) ==
  {[m EXCEPT !.id = IF HasID(m) THEN i ELSE NoId] :
     m \in {x \in Msgs : /\ x.method \notin {"ping", "notifications/initialized"}
                         /\ x.tool \in {"none", "get_system_info"}}}

\* JSON arrays of n messages
RECURSIVE BatchesOf(_)
BatchesOf(n) ==
  IF n = 0 THEN {<< >>}
  ELSE {Append(b, m) : b \in BatchesOf(n - 1), m \in BatchMsgs(n)}

\* JSON arrays of up to MaxBatch messages
Batches == UNION {BatchesOf(n) : n \in 0..MaxBatch}

\* the exchange of a POST with an array body: the request (msgs, hdr,
\* accept) and the reply (status, body, outs, respHdr)
NoBatch ==
  [phase |-> "idle", msgs |-> << >>, hdr |-> NoSession, accept |-> "none",
   status |-> 0, body |-> "none", outs |-> << >>, respHdr |-> NoSession]

\* hasRequests: some message has both an id key and a method key
hasRequests(msgs) == \E i \in 1..Len(msgs) : IsRequest(msgs[i])

\* the CreateSession calls HandlePost makes for an array body
BatchCreates(msgs, h, a) ==
  IF a = "none" THEN 0
  ELSE Cardinality({i \in 1..Len(msgs) : IsInitialize(msgs[i])})
       + (IF a = "sse" /\ h = NoSession /\ hasRequests(msgs) THEN 1 ELSE 0)

\* a client posts an array of messages to the streamable endpoint
ReceiveBatch ==
  /\ batch.phase = "idle"
  /\ \E msgs \in Batches, h \in HdrChoices, a \in Accepts :
       /\ Len(created) + BatchCreates(msgs, h, a) <= MaxMade
       /\ (a = "sse" /\ hasRequests(msgs)) =>
            /\ Cardinality(streams) < MaxStreams
            /\ h \in DOMAIN sessions => sessions[h].eventCounter < MaxEventId
       /\ batch' = [NoBatch EXCEPT !.phase = "req", !.msgs = msgs, !.hdr = h,
                                   !.accept = a]
  /\ UNCHANGED <<storeVars, mu, callers, removed, cell, streams, mainSessions,
                 nextUuid, last, deleted, slots, logVars, mainSseVars,
                 streamVars, sweepVars, lateVars>>

\* the client has read the reply to its array
DeliverBatch ==
  /\ batch.phase = "done"
  /\ batch' = NoBatch
  /\ UNCHANGED <<storeVars, mu, callers, removed, cell, streams, mainSessions,
                 nextUuid, last, deleted, slots, logVars, mainSseVars,
                 streamVars, sweepVars, lateVars>>

\* one turn of the loop "for _, msg := range messages" of the request
\* branch: a message with a method key goes to the dispatcher, a non-nil
\* response is appended; the response to initialize takes the id found in
\* lastCreatedSessionID into the header, and the cell is cleared
BatchStep(acc, m, h, toolOk, stride) ==
  IF ~HasMethodKey(m) THEN acc
  ELSE LET resp   == handleJSONRPCMessage(m, h \in DOMAIN acc.st.tbl, toolOk)
           st1    == DispatchStore(acc.st, m, h, stride)
           cell1  == DispatchCell(st1, m, acc.cell)
           loadOk == /\ resp # NilResp
                     /\ MethodString(m) = "initialize"
                     /\ resp.kind = "result"
                     /\ cell1 # NoSession
       IN [st   |-> st1,
           cell |-> IF loadOk THEN NoSession ELSE cell1,
           hdr  |-> IF loadOk THEN cell1 ELSE acc.hdr,
           outs |-> IF resp = NilResp THEN acc.outs ELSE Append(acc.outs, resp)]

\* the request branch over the whole array, in input order
RECURSIVE BatchLoop(_, _, _, _, _, _)
BatchLoop(acc, msgs, i, h, oks, stride) ==
  IF i > Len(msgs) THEN acc
  ELSE BatchLoop(BatchStep(acc, msgs[i], h, oks[i], stride),
                 msgs, i + 1, h, oks, stride)

\* the branch onlyResponsesOrNotifications: every message goes to the
\* dispatcher and the responses are dropped
RECURSIVE NotifyLoop(_, _, _, _, _)
NotifyLoop(acc, msgs, i, h, stride) ==
  IF i > Len(msgs) THEN acc
  ELSE LET st1 == DispatchStore(acc.st, msgs[i], h, stride)
       IN NotifyLoop([acc EXCEPT !.st = st1,
                                 !.cell = DispatchCell(st1, msgs[i], acc.cell)],
                     msgs, i + 1, h, stride)

\* the handler returns with the array's exchange b
BatchCommit(st, c, ss, b) ==
  /\ SetStore(st)
  /\ cell' = c
  /\ streams' = ss
  /\ batch' = [b EXCEPT !.phase = "done"]
  /\ UNCHANGED <<mu, callers, removed, mainSessions, nextUuid, last, deleted,
                 slots, logVars, mainSseVars, streamVars, sweepVars,
                 lateVars>>

\* streamable.Handler.HandlePost with an array body
StreamableBatchPost ==
  /\ batch.phase = "req"
  /\ LET msgs == batch.msgs
         h    == batch.hdr
         a    == batch.accept
         n    == BatchCreates(msgs, h, a)
         acc0 == [st |-> Store, cell |-> cell, hdr |-> NoSession, outs |-> << >>]
     IN
     \E oks \in {f \in [1..Len(msgs) -> BOOLEAN] :
                   \A i \in 1..Len(msgs) :
                     ~f[i] => /\ msgs[i].tool \in ToolNames
                              /\ HasID(msgs[i])
                              /\ h \in DOMAIN sessions} :
     \E stride \in {s \in 0..MaxStride :
                      clock.nsec + RandomLen * s * n <= MaxNsec} :
       IF a = "none"
         THEN BatchCommit(Store, cell, streams,
                          [batch EXCEPT !.status = 406, !.body = "text"])
       ELSE IF ~hasRequests(msgs)
         THEN LET r == NotifyLoop(acc0, msgs, 1, h, stride)
              IN BatchCommit(r.st, r.cell, streams, [batch EXCEPT !.status = 202])
       ELSE LET r == BatchLoop(acc0, msgs, 1, h, oks, stride)
            IN IF a = "sse" /\ Len(r.outs) > 0
                 THEN LET e == HandleSSE(r.st, h, r.hdr, r.outs, stride)
                      IN BatchCommit(e.st, r.cell, streams \cup e.stream,
                           [batch EXCEPT !.status = e.status, !.body = e.body,
                              !.outs = IF e.status = 200 THEN r.outs ELSE << >>,
                              !.respHdr = e.respHdr])
                 ELSE BatchCommit(r.st, r.cell, streams,
                        [batch EXCEPT !.status = 200,
                           !.body = IF Len(r.outs) = 1 THEN "json" ELSE "array",
                           !.outs = r.outs, !.respHdr = r.hdr])

(* ------------- FiberMCPHandler.HandleJSONRPC (POST /mcp) --------------- *)
\* a client sends one message to POST /mcp
ReceiveMcp ==
  /\ last.phase = "idle"
  /\ \E m \in Msgs, h \in HdrChoices, a \in Accepts :
       /\ Len(created) + (IF IsInitialize(m) THEN 1 ELSE 0) <= MaxMade
       /\ last' = Request("mcp_post", m, h, a)
  /\ UNCHANGED <<storeVars, mu, callers, removed, cell, streams, mainSessions,
                 nextUuid, deleted, slots, auxVars>>

\* isStreamingToolCall(request) && clientSupportsSSE(c)
isStreamingToolCall(m) == m.method = "tools/call" /\ m.tool = "system_monitor_stream"

\* HandleJSONRPC: a streaming tool call of a client that accepts SSE is
\* answered on a stream; otherwise the dispatcher's response is the body,
\* and no response is status 204; the id left in lastCreatedSessionID goes
\* to the header of a reply to a request that named no session
McpPost ==
  /\ Serving("mcp_post")
  /\ LET m == last.msg
         h == last.hdr
         a == last.accept
     IN
     \E toolOk \in (IF m.tool \in ToolNames /\ h \in DOMAIN sessions /\ HasID(m)
                    THEN BOOLEAN ELSE {TRUE}) :
     \E s1 \in (IF IsInitialize(m) THEN Strides(clock) ELSE {0}) :
       LET st1   == DispatchStore(Store, m, h, s1)
           resp  == handleJSONRPCMessage(m, h \in DOMAIN sessions, toolOk)
           cell1 == DispatchCell(st1, m, cell)
           ex1   == [last EXCEPT !.called = TRUE, !.resp = resp,
                        !.initSid = IF IsInitialize(m) THEN st1.ret ELSE NoSession]
           hdr1  == IF h = NoSession THEN cell1 ELSE NoSession
       IN
       IF isStreamingToolCall(m) /\ a = "sse"
         THEN IF h \in DOMAIN sessions
                THEN Commit(GetSession(Store, h), cell, streams,
                            [last EXCEPT !.status = 200, !.body = "sse"])
                ELSE Commit(Store, cell, streams,
                            [last EXCEPT !.status = 400, !.body = "text"])
       ELSE IF resp = NilResp
         THEN Commit(st1, cell1, streams, [ex1 EXCEPT !.status = 204])
       ELSE Commit(st1, cell1, streams,
                   [ex1 EXCEPT !.status = 200, !.body = "json", !.out = resp,
                      !.respHdr = hdr1])

(* ------------------- one session's event log --------------------------- *)
\* the payload of the n-th StoreEvent call on evlog
Payload(n) == 2 * n + 1

NoCall == [op |-> "none", arg |-> 0, ret |-> 0, events |-> << >>,
           before |-> << >>]

\* a goroutine calls evlog.StoreEvent(data); s.mu makes the call atomic
LogStore ==
  /\ evlog.eventCounter < MaxStores
  /\ LET data == Payload(evlog.eventCounter + 1)
         s1   == StoreEvent(evlog, data)
     IN /\ evlog' = s1
        /\ lastCall' = [NoCall EXCEPT !.op = "store", !.arg = data,
                                      !.ret = s1.eventCounter,
                                      !.before = evlog.storedEvents]
  /\ UNCHANGED <<coreVars, batch, mainSseVars, streamVars, sweepVars, lateVars>>

\* a goroutine calls evlog.GetEventsAfter(x)
LogRead ==
  /\ \E x \in (0 - 1)..(MaxStores + 1) :
       lastCall' = [NoCall EXCEPT !.op = "read", !.arg = x,
                                  !.events = GetEventsAfter(evlog, x),
                                  !.before = evlog.storedEvents]
  /\ UNCHANGED <<coreVars, batch, evlog, mainSseVars, streamVars, sweepVars, lateVars>>

(* ------- the Streamable HTTP transport of main.go (net/http) ----------- *)
\* the messages posted to it here: every method, no tool call
MainSseMsgs == {m \in Msgs : m.tool = "none"}

\* the frames "id: %d" for initialResponses; eventCounter is a local of
\* handleStreamableHTTPSSE and starts at 0 on every connection
RECURSIVE MainInitialFrames(_, _, _)
MainInitialFrames(sid, responses, eventCounter) ==
  IF responses = << >> THEN << >>
  ELSE <<[sid |-> sid, id |-> eventCounter + 1, data |-> Head(responses)]>>
       \o MainInitialFrames(sid, Tail(responses), eventCounter + 1)

FreeMainConn ==
  CHOOSE n \in 1..(Cardinality(mainConns) + 1) : \A x \in mainConns : x.conn # n

\* handleStreamableHTTPSSE up to its loop: without a session id a session
\* is created for the connection; an id that does not resolve is answered
\* 404; then the initial responses are written
handleStreamableHTTPSSE(tbl, n, h, initialResponses) ==
  LET auto == (h = NoSession)
      sid  == IF auto THEN Uuid(n) ELSE h
      tbl1 == IF auto THEN tbl \cup {sid} ELSE tbl
      n1   == IF auto THEN n + 1 ELSE n
  IN IF sid \notin tbl1
       THEN [tbl |-> tbl1, n |-> n1, status |-> 404, frames |-> << >>,
             stream |-> {}]
       ELSE [tbl |-> tbl1, n |-> n1, status |-> 200,
             frames |-> MainInitialFrames(sid, initialResponses, 0),
             stream |-> {[conn |-> FreeMainConn, sid |-> sid, auto |-> auto,
                          eventCounter |-> Len(initialResponses)]}]

\* the handler returns: r is the outcome of handleStreamableHTTPSSE
MainSseCommit(r, c) ==
  /\ r.n - 1 <= MaxUuids
  /\ Len(mainSent) + Len(r.frames) <= MaxFrames
  /\ Cardinality(mainConns \cup r.stream) <= MaxMainConns
  /\ mainSessions' = r.tbl
  /\ nextUuid' = r.n
  /\ cell' = c
  /\ mainConns' = mainConns \cup r.stream
  /\ mainSent' = mainSent \o r.frames
  /\ UNCHANGED <<storeVars, mu, callers, removed, streams, last, deleted,
                 slots, batch, logVars, streamVars, sweepVars, lateVars>>

\* handleStreamableHTTPPost of main.go with a body of one message
MainSsePost ==
  \E m \in MainSseMsgs, h \in MainHdrChoices, a \in Accepts :
    LET new   == Uuid(nextUuid)
        init  == IsInitialize(m)
        tbl1  == IF init THEN mainSessions \cup {new} ELSE mainSessions
        n1    == IF init THEN nextUuid + 1 ELSE nextUuid
        cell1 == IF init THEN new ELSE cell
        resp  == handleJSONRPCMessage(m, h \in mainSessions, TRUE)
        loadOk == init /\ resp.kind = "result" /\ cell1 # NoSession
        cell2 == IF loadOk THEN NoSession ELSE cell1
        quiet(tbl, n) == [tbl |-> tbl, n |-> n, status |-> 0, frames |-> << >>,
                          stream |-> {}]
    IN
    IF a = "none" THEN MainSseCommit(quiet(mainSessions, nextUuid), cell)
    ELSE IF ~IsRequest(m) THEN MainSseCommit(quiet(tbl1, n1), cell1)
    ELSE IF a = "sse" /\ resp # NilResp
      THEN MainSseCommit(handleStreamableHTTPSSE(tbl1, n1, h, <<resp>>), cell2)
    ELSE MainSseCommit(quiet(tbl1, n1), cell2)

\* handleStreamableHTTPGet of main.go
MainSseGet ==
  \E h \in MainHdrChoices, a \in {"json", "sse"} :
    IF a = "sse"
      THEN MainSseCommit(handleStreamableHTTPSSE(mainSessions, nextUuid, h, << >>),
                         cell)
      ELSE UNCHANGED vars

\* the client of a stream disconnects: a session created for the connection
\* is removed, done is closed and the loop returns
MainSseDisconnect ==
  \E x \in mainConns :
    /\ mainSessions' = IF x.auto THEN mainSessions \ {x.sid} ELSE mainSessions
    /\ mainConns' = mainConns \ {x}
    /\ UNCHANGED <<storeVars, mu, callers, removed, cell, streams, nextUuid,
                   last, deleted, slots, batch, logVars, mainSent, streamVars,
                   sweepVars, lateVars>>

\* the loop finds session.SSEChan closed (RemoveSession closed it) and returns
MainSseChanClosed ==
  \E x \in mainConns :
    /\ x.sid \notin mainSessions
    /\ mainConns' = mainConns \ {x}
    /\ UNCHANGED <<coreVars, batch, logVars, mainSent, streamVars, sweepVars, lateVars>>

(* --------- streamable.Handler.HandleSSE: the stream writer ------------- *)
\* The connections of this part are open on one session that exists, evlog.
\* A connection writes event frames "id: N / data: D"; the ": ping" comment
\* lines carry no id and are not recorded.
Conns == 1..NConns

\* the Last-Event-Id header: absent, not a number, or the number n
NoMarker == [kind |-> "none", n |-> 0]
Markers ==
  {NoMarker, [kind |-> "bad", n |-> 0]}
  \cup {[kind |-> "num", n |-> x] : x \in 0..evlog.eventCounter}

\* strconv.ParseInt(lastEventID, 10, 64): startEventID stays 0 without a
\* header and when the header does not parse
startEventID(marker) == IF marker.kind = "num" THEN marker.n ELSE 0

ClosedConn ==
  [pc |-> "closed", marker |-> NoMarker, openLog |-> << >>,
   replayed |-> 0, pending |-> << >>, held |-> 0, frames |-> << >>]

\* the frame written for a stored event
Frame(event) == [id |-> event.ID, data |-> event.Data]

Frames(events) == [i \in 1..Len(events) |-> Frame(events[i])]

\* the payloads of the initial responses of the k-th stream, of the k-th
\* message sent on SSEChan
ResponsePayload(k) == 200 + k
MessagePayload(k) == 100 + k

\* everything but conns, evlog, sseChan and opens
streamUnchanged ==
  <<coreVars, batch, lastCall, mainSseVars, sweepVars, lateVars>>

\* the stream writer starts: with startEventID > 0 the events after it are
\* read from the log and written; nInitial initial responses wait
StreamOpen(c) ==
  /\ conns[c].pc = "closed"
  /\ opens.streams < MaxOpens
  /\ \E marker \in Markers, nInitial \in 0..1 :
       LET start  == startEventID(marker)
           missed == IF start > 0 THEN GetEventsAfter(evlog, start) ELSE << >>
       IN conns' = [conns EXCEPT ![c] =
            [pc |-> IF nInitial > 0 THEN "initial" ELSE "loop",
             marker |-> marker,
             openLog |-> evlog.storedEvents,
             replayed |-> Len(missed),
             pending |-> [i \in 1..nInitial |-> ResponsePayload(opens.streams + 1)],
             held |-> 0,
             frames |-> Frames(missed)]]
  /\ opens' = [opens EXCEPT !.streams = @ + 1]
  /\ UNCHANGED <<streamUnchanged, evlog, sseChan>>

\* one initial response: session.StoreEvent(response), then its frame
StreamInitial(c) ==
  /\ conns[c].pc = "initial"
  /\ LET response == Head(conns[c].pending)
         s1       == StoreEvent(evlog, response)
         rest     == Tail(conns[c].pending)
     IN /\ evlog' = s1
        /\ conns' = [conns EXCEPT ![c].pending = rest,
                       ![c].pc = IF rest = << >> THEN "loop" ELSE "initial",
                       ![c].frames = Append(@, [id |-> s1.eventCounter,
                                                 data |-> response])]
  /\ UNCHANGED <<streamUnchanged, sseChan, opens>>

\* a message is sent on session.SSEChan
Produce ==
  /\ opens.messages < MaxProduced
  /\ sseChan' = Append(sseChan, MessagePayload(opens.messages + 1))
  /\ opens' = [opens EXCEPT !.messages = @ + 1]
  /\ UNCHANGED <<streamUnchanged, evlog, conns>>

\* case message, ok := <-session.SSEChan
StreamRecv(c) ==
  /\ conns[c].pc = "loop"
  /\ sseChan # << >>
  /\ conns' = [conns EXCEPT ![c].pc = "holding", ![c].held = Head(sseChan)]
  /\ sseChan' = Tail(sseChan)
  /\ UNCHANGED <<streamUnchanged, evlog, opens>>

\* eventID := session.StoreEvent(message); the frame is written unless
\* json.Marshal(message) fails
StreamStoreWrite(c) ==
  /\ conns[c].pc = "holding"
  /\ \E marshalOk \in BOOLEAN :
       LET message == conns[c].held
           s1      == StoreEvent(evlog, message)
       IN /\ evlog' = s1
          /\ conns' = [conns EXCEPT ![c].pc = "loop", ![c].held = 0,
                         ![c].frames = IF marshalOk
                                         THEN Append(@, [id |-> s1.eventCounter,
                                                         data |-> message])
                                         ELSE @]
  /\ UNCHANGED <<streamUnchanged, sseChan, opens>>

\* case <-done: the timeout has closed done and the stream writer returns
StreamDone(c) ==
  /\ conns[c].pc = "loop"
  /\ conns' = [conns EXCEPT ![c].pc = "closed"]
  /\ UNCHANGED <<streamUnchanged, evlog, sseChan, opens>>

(* -------------- the SessionManager with its sweep ---------------------- *)
\* Each call runs under sm.mu from its first to its last statement (the
\* sweep under Lock), so a call is one step here.
\* the maxAge arguments: no time, one id generation, one second
MaxAges == {0, RandomLen, NanosPerSecond}

NoSweep == [n |-> 0, maxAge |-> 0, now |-> Time0, gone |-> {}, kept |-> {}]

sweepUnchanged ==
  <<mu, callers, removed, cell, streams, mainSessions, nextUuid, last,
    deleted, slots, batch, logVars, mainSseVars, streamVars, lateVars>>

\* a caller runs CreateSession()
SweepCreate ==
  /\ Len(created) < MaxMade
  /\ \E stride \in Strides(clock) : SetStore(CreateSession(Store, stride))
  /\ UNCHANGED <<sweepUnchanged, sweepVars>>

\* a caller runs GetSession(id)
SweepGet ==
  /\ \E id \in HdrChoices \ {NoSession} :
       /\ SetStore(GetSession(Store, id))
       /\ lastGot' = IF id \in DOMAIN sessions
                       THEN Put(lastGot, id, clock) ELSE lastGot
  /\ UNCHANGED <<sweepUnchanged, lastSweep>>

\* a caller runs CleanupExpiredSessions(maxAge)
Sweep ==
  /\ lastSweep.n < MaxSweeps
  /\ \E maxAge \in MaxAges :
       LET st == CleanupExpiredSessions(Store, maxAge)
       IN /\ SetStore(st)
          /\ lastSweep' = [n |-> lastSweep.n + 1, maxAge |-> maxAge,
                           now |-> clock,
                           gone |-> (DOMAIN sessions) \ (DOMAIN st.tbl),
                           kept |-> DOMAIN st.tbl]
  /\ UNCHANGED <<sweepUnchanged, lastGot>>

(* ------ main.go: sendSSEMessage and the outbox of one session ---------- *)
\* One session of the SessionManager of main.go and its SSEChan, a channel
\* with a buffer of OutboxCap values. state: "none" before CreateSession,
\* "live" while sessions[id] holds it, "removed" after RemoveSession.
NoOutbox == [state |-> "none", closed |-> FALSE, buf |-> << >>]
IdleSender == [pc |-> "idle", err |-> "none"]
NoSend == [n |-> 0, res |-> "none", before |-> << >>, after |-> << >>,
           closed |-> FALSE]

\* CreateSession(): make(chan interface{}, 100) under sm.mu.Lock
OutboxCreate ==
  /\ outbox.state = "none"
  /\ outbox' = [outbox EXCEPT !.state = "live"]
  /\ UNCHANGED <<earlyVars, sseEnds, run, life, auth, sender, lastSend>>

\* RemoveSession(id) under sm.mu.Lock: close(session.SSEChan) and delete;
\* a second call finds no entry and does nothing
OutboxRemove ==
  /\ outbox.state # "none"
  /\ outbox' = IF outbox.state = "live"
                 THEN [outbox EXCEPT !.state = "removed", !.closed = TRUE]
                 ELSE outbox
  /\ UNCHANGED <<earlyVars, sseEnds, run, life, auth, sender, lastSend>>

\* sendSSEMessage, first half: GetSession(sessionID) under sm.mu.RLock
SendLookup ==
  /\ sender.pc = "idle"
  /\ lastSend.n < MaxSends
  /\ outbox.state # "none"
  /\ sender' = IF outbox.state = "live"
                 THEN [pc |-> "held", err |-> "none"]
                 ELSE [pc |-> "returned", err |-> "session not found"]
  /\ UNCHANGED <<earlyVars, sseEnds, run, life, auth, outbox, lastSend>>

\* sendSSEMessage, second half: select { case session.SSEChan <- message:
\* return nil; default: return "channel full" }, with no lock held. A send
\* on a closed channel panics, whatever the buffer holds.
SendSelect ==
  /\ sender.pc = "held"
  /\ LET message == lastSend.n + 1
         res == IF outbox.closed THEN "panic"
                ELSE IF Len(outbox.buf) < OutboxCap THEN "nil"
                ELSE "channel full"
         buf1 == IF res = "nil" THEN Append(outbox.buf, message)
                 ELSE outbox.buf
     IN /\ outbox' = [outbox EXCEPT !.buf = buf1]
        /\ sender' = IF res = "panic" THEN [pc |-> "panicked", err |-> "none"]
                     ELSE [pc |-> "returned", err |-> res]
        /\ lastSend' = [n |-> message, res |-> res, before |-> outbox.buf,
                        after |-> buf1, closed |-> outbox.closed]
  /\ UNCHANGED <<earlyVars, sseEnds, run, life, auth>>

\* the caller of sendSSEMessage has its error and may call again
SendReturn ==
  /\ sender.pc = "returned"
  /\ sender' = IdleSender
  /\ UNCHANGED <<earlyVars, sseEnds, run, life, auth, outbox, lastSend>>

\* the stream loop of the session: case message, ok := <-session.SSEChan;
\* a closed channel still hands out what its buffer holds
OutboxRecv ==
  /\ outbox.buf # << >>
  /\ outbox' = [outbox EXCEPT !.buf = Tail(outbox.buf)]
  /\ UNCHANGED <<earlyVars, sseEnds, run, life, auth, sender, lastSend>>

(* -------- main.go: handleSSE, the stream of the legacy transport -------- *)
\* explicit: the ids handleInitialize has made; last: the stream that ended
\* last on a client disconnect, and whether its session was removed by it
NoEnds == [explicit |-> {},
           last |-> [n |-> 0, sid |-> NoSession, auto |-> FALSE,
                     removed |-> FALSE]]

sseCloseUnchanged ==
  <<storeVars, mu, callers, removed, cell, streams, last, deleted, slots,
    batch, logVars, mainSent, streamVars, sweepVars, outboxVars, run,
    life, auth>>

\* handleInitialize: sessionID := h.sessionManager.CreateSession()
handleInitialize ==
  /\ nextUuid <= MaxUuids
  /\ mainSessions' = mainSessions \cup {Uuid(nextUuid)}
  /\ nextUuid' = nextUuid + 1
  /\ sseEnds' = [sseEnds EXCEPT !.explicit = @ \cup {Uuid(nextUuid)}]
  /\ UNCHANGED <<sseCloseUnchanged, mainConns>>

\* handleSSE up to its loop: without a session id a session is created for
\* the connection; an id that does not resolve is answered 400
handleSSEOpen ==
  /\ Cardinality(mainConns) < MaxMainConns
  /\ \E h \in MainHdrChoices :
       LET auto == h = NoSession
           sid  == IF auto THEN Uuid(nextUuid) ELSE h
       IN /\ auto => nextUuid <= MaxUuids
          /\ mainSessions' = IF auto THEN mainSessions \cup {sid}
                             ELSE mainSessions
          /\ nextUuid' = IF auto THEN nextUuid + 1 ELSE nextUuid
          /\ mainConns' = IF auto \/ h \in mainSessions
                            THEN mainConns \cup
                                   {[conn |-> FreeMainConn, sid |-> sid,
                                     auto |-> auto, eventCounter |-> 0]}
                            ELSE mainConns
  /\ UNCHANGED <<sseCloseUnchanged, sseEnds>>

\* the loop of handleSSE, case <-done (the client disconnected):
\* h.sessionManager.RemoveSession(sessionID); return
handleSSEDone ==
  \E x \in mainConns :
    /\ mainSessions' = mainSessions \ {x.sid}
    /\ mainConns' = mainConns \ {x}
    /\ sseEnds' = [sseEnds EXCEPT
                     !.last = [n |-> 1, sid |-> x.sid, auto |-> x.auto,
                               removed |-> x.sid \in mainSessions]]
    /\ UNCHANGED <<sseCloseUnchanged, nextUuid>>

(* ------ handleSystemMonitorStream: one run of the streaming tool -------- *)
\* Time is counted in half seconds from the reading of time.Now() that
\* fixes endTime. The run writes its frames to w, the bufio.Writer of the
\* response; out is what it has written, in order.
\* the value of an argument: absent, a JSON value that is no string, a string
ArgValues ==
  {[kind |-> "absent", text |-> ""], [kind |-> "other", text |-> ""]} \cup
  {[kind |-> "string", text |-> s] : s \in {"", "abc", "0s", "1s", "2s", "4s"}}

\* time.ParseDuration on the texts used here, in half seconds
ParseDuration(s) ==
  CASE s = "0s"  -> [ok |-> TRUE, d |-> 0]
    [] s = "1s"  -> [ok |-> TRUE, d |-> 2]
    [] s = "2s"  -> [ok |-> TRUE, d |-> 4]
    [] s = "4s"  -> [ok |-> TRUE, d |-> 8]
    [] s = "30s" -> [ok |-> TRUE, d |-> 60]
    [] OTHER     -> [ok |-> FALSE, d |-> 0]

RunFrame(kind, iteration, error, total) ==
  [kind |-> kind, iteration |-> iteration, error |-> error, total |-> total]

NoRun ==
  [pc |-> "idle", duration |-> [kind |-> "absent", text |-> ""],
   interval |-> [kind |-> "absent", text |-> ""],
   now |-> 0, endTime |-> 0, period |-> 0, nextFire |-> 0,
   pending |-> FALSE, since |-> 0, iteration |-> 0, collected |-> 0,
   failed |-> {}, out |-> << >>, cancelled |-> FALSE, cancelAt |-> 0]

\* handleSystemMonitorStream up to its loop: the arguments (a value that is
\* no string or is empty gets the default), the two ParseDuration calls, the
\* start notification, endTime and the ticker; NewTicker panics on an
\* interval that is not positive
handleSystemMonitorStream(r, dur, inter) ==
  LET durationStr == IF dur.kind = "string" /\ dur.text # ""
                       THEN dur.text ELSE "30s"
      intervalStr == IF inter.kind = "string" /\ inter.text # ""
                       THEN inter.text ELSE "2s"
      duration == ParseDuration(durationStr)
      interval == ParseDuration(intervalStr)
      r0 == [r EXCEPT !.duration = dur, !.interval = inter]
  IN IF ~duration.ok \/ ~interval.ok
       THEN [r0 EXCEPT !.pc = "done",
                       !.out = <<RunFrame("error", 0, TRUE, 0)>>]
     ELSE IF interval.d <= 0
       THEN [r0 EXCEPT !.pc = "panicked",
                       !.out = <<RunFrame("start", 0, FALSE, 0)>>,
                       !.endTime = duration.d]
     ELSE [r0 EXCEPT !.pc = "loop",
                     !.out = <<RunFrame("start", 0, FALSE, 0)>>,
                     !.endTime = duration.d, !.period = interval.d,
                     !.nextFire = interval.d]

\* MonitorTick whose result reports one sample more than were taken
MonitorTick_onemore(r, sysinfoOk) ==
  IF r.now > r.endTime
    THEN [r EXCEPT !.pending = FALSE, !.pc = "done",
                   !.out = Append(@, RunFrame("result", 0, FALSE,
                                              r.iteration + 1))]
    ELSE LET iteration == r.iteration + 1
         IN [r EXCEPT !.pending = FALSE, !.iteration = iteration,
                      !.collected = @ + 1,
                      !.failed = IF sysinfoOk THEN @ ELSE @ \cup {iteration},
                      !.out = Append(@, RunFrame("progress", iteration,
                                                 ~sysinfoOk, 0))]

\* MonitorTick that returns on a failed sysinfo.Get()
MonitorTick_abort(r, sysinfoOk) ==
  IF r.now > r.endTime
    THEN [r EXCEPT !.pending = FALSE, !.pc = "done",
                   !.out = Append(@, RunFrame("result", 0, FALSE, r.iteration))]
    ELSE LET iteration == r.iteration + 1
         IN [r EXCEPT !.pending = FALSE, !.iteration = iteration,
                      !.collected = @ + 1,
                      !.pc = IF sysinfoOk THEN @ ELSE "done",
                      !.failed = IF sysinfoOk THEN @ ELSE @ \cup {iteration},
                      !.out = Append(@, RunFrame("progress", iteration,
                                                 ~sysinfoOk, 0))]

\* the loop of handleSystemMonitorStream, case <-ticker.C: past endTime the
\* result with total_samples = iteration and return; else iteration++,
\* sysinfo.Get() and one progress notification, with the error if it failed
MonitorTick(r, sysinfoOk) ==
  IF r.now > r.endTime
    THEN [r EXCEPT !.pending = FALSE, !.pc = "done",
                   !.out = Append(@, RunFrame("result", 0, FALSE, r.iteration))]
    ELSE LET iteration == r.iteration + 1
         IN [r EXCEPT !.pending = FALSE, !.iteration = iteration,
                      !.collected = @ + 1,
                      !.failed = IF sysinfoOk THEN @ ELSE @ \cup {iteration},
                      !.out = Append(@, RunFrame("progress", iteration,
                                                 ~sysinfoOk, 0))]

runUnchanged == <<earlyVars, outboxVars, sseEnds, life, auth>>

\* handleStreamingToolCall finds the session and starts the body stream
\* writer, which calls handleSystemMonitorStream
RunStart ==
  /\ run.pc = "idle"
  /\ \E dur \in ArgValues, inter \in ArgValues :
       run' = handleSystemMonitorStream(run, dur, inter)
  /\ UNCHANGED runUnchanged

\* half a second passes; the ticker puts a tick into its channel, which
\* holds one tick and drops a tick that finds it full
RunClock ==
  /\ run.pc = "loop"
  /\ run.pending => run.now - run.since < PollLag
  /\ LET now == run.now + 1
         fire == now = run.nextFire
     IN run' = [run EXCEPT
                  !.now = now,
                  !.nextFire = IF fire THEN @ + run.period ELSE @,
                  !.pending = @ \/ fire,
                  !.since = IF fire /\ ~run.pending THEN now ELSE @]
  /\ UNCHANGED runUnchanged

\* the loop takes the tick
RunTick ==
  /\ run.pc = "loop"
  /\ run.pending
  /\ \E sysinfoOk \in BOOLEAN :
       /\ ~sysinfoOk => Cardinality(run.failed) < MaxFailures
       /\ run' = MonitorTick(run, sysinfoOk)
  /\ UNCHANGED runUnchanged

\* the client of the response disconnects; nothing in the loop looks at it
RunCancel ==
  /\ run.pc = "loop"
  /\ ~run.cancelled
  /\ run' = [run EXCEPT !.cancelled = TRUE, !.cancelAt = Len(run.out)]
  /\ UNCHANGED runUnchanged

(* ---- HandleSSE of the Fiber transport: the loop and its timeout ------- *)
\* One stream from its open to the end of its two goroutines. Time is
\* counted in periods of the ping ticker, from the creation of the timer.
PingPeriod == 1                \* time.NewTicker(30 * time.Second)
TimeoutPeriods == 10           \* time.NewTimer(5 * time.Minute)

\* pc: the stream writer ("none", "loop", "returned"); guard: the timeout
\* goroutine ("none", "waiting", "returned"); obj: the *Session the writer
\* holds; done: the close(done) calls; queue: the values in obj.SSEChan;
\* broken: the client's connection is gone, writes to it fail; failed: a
\* write has failed; afterFail: a message was received after that;
\* lastWrite: <<elapsed>> of the last event written; closedTwice: a Close
\* found the channel closed; deletes, sweeps: the DELETE requests for sid
\* and the sweeps handled since the open
NoLife ==
  [pc |-> "none", guard |-> "none", sid |-> NoSession, obj |-> 0,
   auto |-> FALSE, done |-> 0, elapsed |-> 0, pingDue |-> FALSE,
   queue |-> << >>, produced |-> 0, broken |-> FALSE, failed |-> FALSE,
   afterFail |-> FALSE, lastWrite |-> << >>, closedTwice |-> FALSE,
   deletes |-> FALSE, sweeps |-> 0]

lifeUnchanged ==
  <<mu, callers, removed, cell, streams, mainSessions, nextUuid, last,
    deleted, slots, batch, logVars, mainSseVars, streamVars, sweepVars,
    outboxVars, sseEnds, run, auth>>

\* Close is called on an entry whose channel is closed already
ClosesTwice(ids) ==
  \E id \in ids \cap DOMAIN sessions : sessions[id].obj \in closedChans

\* HandleSSE up to the start of its goroutine: without a session id a
\* session is created for the connection; an unknown id is answered 404
LifeOpen ==
  /\ life.pc = "none"
  /\ \E h \in HdrChoices, stride \in Strides(clock) :
       LET auto == h = NoSession
           st1  == IF auto THEN CreateSession(Store, stride) ELSE Store
           sid  == IF auto THEN st1.ret ELSE h
           st2  == GetSession(st1, sid)
       IN /\ auto => Len(created) < MaxMade
          /\ ~auto => stride = 0
          /\ SetStore(st2)
          /\ life' = IF sid \in DOMAIN st2.tbl
                       THEN [life EXCEPT !.pc = "loop", !.guard = "waiting",
                                         !.sid = sid,
                                         !.obj = st2.tbl[sid].obj,
                                         !.auto = auto]
                       ELSE life
  /\ UNCHANGED lifeUnchanged

\* a handler sends a message on the SSEChan of the stream's session
LifeProduce ==
  /\ life.pc # "none"
  /\ life.obj \notin closedChans
  /\ life.produced < MaxProduced
  /\ life' = [life EXCEPT !.produced = @ + 1,
                          !.queue = Append(@, life.produced + 1)]
  /\ UNCHANGED <<storeVars, lifeUnchanged>>

\* the client's connection breaks; no case of either select waits for it
LifeBreak ==
  /\ life.pc = "loop"
  /\ ~life.broken
  /\ life' = [life EXCEPT !.broken = TRUE]
  /\ UNCHANGED <<storeVars, lifeUnchanged>>

\* one ping period passes: the ticker leaves a tick in its channel, which
\* holds one; the timer fires when TimeoutPeriods is reached
LifeTick ==
  /\ life.guard = "waiting"
  /\ life.elapsed < TimeoutPeriods
  /\ life' = [life EXCEPT !.elapsed = @ + PingPeriod, !.pingDue = TRUE]
  /\ UNCHANGED <<storeVars, lifeUnchanged>>

\* case message, ok := <-session.SSEChan with ok: StoreEvent, then the
\* frame is written and flushed, the results of both calls dropped
LoopRecv ==
  /\ life.pc = "loop"
  /\ life.queue # << >>
  /\ sessions' = IF life.sid \in DOMAIN sessions
                    /\ sessions[life.sid].obj = life.obj
                   THEN [sessions EXCEPT
                           ![life.sid] = StoreEvent(@, Head(life.queue))]
                   ELSE sessions
  /\ life' = [life EXCEPT
                !.queue = Tail(@),
                !.afterFail = @ \/ life.failed,
                !.failed = @ \/ life.broken,
                !.lastWrite = IF life.broken THEN @ ELSE <<life.elapsed>>]
  /\ UNCHANGED <<clock, nextObj, closedChans, created, replaced,
                 lifeUnchanged>>

\* case <-pingTicker.C: the ping is written and flushed the same way
LoopPing ==
  /\ life.pc = "loop"
  /\ life.pingDue
  /\ life' = [life EXCEPT !.pingDue = FALSE, !.failed = @ \/ life.broken]
  /\ UNCHANGED <<storeVars, lifeUnchanged>>

\* case message, ok := <-session.SSEChan with !ok: the channel is closed
\* and empty, the stream writer returns
LoopChanClosed ==
  /\ life.pc = "loop"
  /\ life.obj \in closedChans
  /\ life.queue = << >>
  /\ life' = [life EXCEPT !.pc = "returned"]
  /\ UNCHANGED <<storeVars, lifeUnchanged>>

\* case <-done of the loop: the stream writer returns
LoopDone ==
  /\ life.pc = "loop"
  /\ life.done > 0
  /\ life' = [life EXCEPT !.pc = "returned"]
  /\ UNCHANGED <<storeVars, lifeUnchanged>>

\* a timeout goroutine that waits for done alone
GuardTimeout_waitsDone ==
  /\ life.guard = "waiting"
  /\ life.done > 0
  /\ life' = [life EXCEPT !.guard = "returned"]
  /\ UNCHANGED <<storeVars, lifeUnchanged>>

\* case <-timeout.C of the goroutine: a session created for the connection
\* is removed, done is closed, the goroutine returns
GuardTimeout ==
  /\ life.guard = "waiting"
  /\ life.elapsed = TimeoutPeriods
  /\ SetStore(IF life.auto THEN RemoveSession(Store, life.sid) ELSE Store)
  /\ life' = [life EXCEPT
                !.guard = "returned",
                !.done = @ + 1,
                !.closedTwice = @ \/ (life.auto /\ ClosesTwice({life.sid}))]
  /\ UNCHANGED lifeUnchanged

\* HandleDelete: RemoveSession(sessionID) for a request that names one
LifeDelete ==
  /\ \E id \in HdrChoices \ {NoSession} :
       /\ SetStore(RemoveSession(Store, id))
       /\ life' = [life EXCEPT
                     !.closedTwice = @ \/ ClosesTwice({id}),
                     !.deletes = @ \/ (life.pc # "none" /\ id = life.sid)]
  /\ UNCHANGED lifeUnchanged

\* a caller runs CleanupExpiredSessions(maxAge)
LifeSweep ==
  /\ life.pc # "none"
  /\ life.sweeps < MaxSweeps
  /\ \E maxAge \in MaxAges :
       LET expired == {id \in DOMAIN sessions :
                         Sub(clock, sessions[id].LastActivity) > maxAge}
       IN /\ SetStore(CleanupExpiredSessions(Store, maxAge))
          /\ life' = [life EXCEPT
                        !.closedTwice = @ \/ ClosesTwice(expired),
                        !.sweeps = @ + 1]
  /\ UNCHANGED lifeUnchanged

(* ------------- middleware.AuthMiddleware on the /mcp group ------------- *)
\* A header value is the sequence of its parts; strings.HasPrefix on them
HasPrefix(s, prefix) ==
  Len(s) >= Len(prefix) /\ SubSeq(s, 1, Len(prefix)) = prefix

APIKey == <<"mcp-secret-key-2025">>
AllowedUserAgents == {<<"Cursor/">>}
SkipPaths == {"/"}
McpPath == "/mcp"              \* app.Group("/mcp", middleware.AuthMiddleware())

NoAuth == [path |-> "none", userAgent |-> << >>, apiKey |-> << >>,
           passed |-> FALSE]

\* the handler AuthMiddlewareWithConfig returns: "next" is c.Next(),
\* "unauthorized" the 401 reply
AuthMiddleware(path, userAgent, apiKey) ==
  IF path \in SkipPaths THEN "next"
  ELSE IF \E allowedUA \in AllowedUserAgents : HasPrefix(userAgent, allowedUA)
    THEN "next"
  ELSE IF apiKey # APIKey THEN "unauthorized"
  ELSE "next"

\* a client sends one message to POST /mcp; the group's middleware runs
\* first and either answers 401 or hands the request to HandleJSONRPC
ReceiveAuth ==
  /\ last.phase = "idle"
  /\ \E m \in Msgs, h \in HdrChoices, a \in Accepts,
        ua \in {<< >>, <<"curl/", "8">>, <<"Cursor/">>, <<"Cursor/", "1">>},
        key \in {<< >>, APIKey, <<"mcp-secret-key-2025", "x">>} :
       LET verdict == AuthMiddleware(McpPath, ua, key)
       IN /\ Len(created) + (IF IsInitialize(m) THEN 1 ELSE 0) <= MaxMade
          /\ auth' = [path |-> McpPath, userAgent |-> ua, apiKey |-> key,
                      passed |-> verdict = "next"]
          /\ last' = IF verdict = "next"
                       THEN Request("mcp_post", m, h, a)
                       ELSE [Request("mcp_post", m, h, a) EXCEPT
                               !.phase = "done", !.status = 401,
                               !.body = "json",
                               !.hdrLive = (h \in DOMAIN sessions)]
  /\ UNCHANGED <<storeVars, mu, callers, removed, cell, streams, mainSessions,
                 nextUuid, deleted, slots, batch, logVars, mainSseVars,
                 streamVars, sweepVars, outboxVars, sseEnds, run, life>>

InitStoreVars ==
  /\ clock = Time0
  /\ sessions = EmptyTable
  /\ nextObj = 1
  /\ created = << >>
  /\ replaced = FALSE
  /\ closedChans = {}

InitCallers ==
  /\ mu = [writer |-> 0, readers |-> {}]
  /\ callers = [c \in Callers |-> IdleCaller]
  /\ removed = {}

InitProto ==
  /\ cell = NoSession
  /\ streams = {}
  /\ mainSessions = {}
  /\ nextUuid = 1
  /\ last = NoExchange
  /\ deleted = {}
  /\ slots = [s \in Slots |-> IdleSlot]
  /\ batch = NoBatch
  /\ evlog = NewSession(UnknownSession, 0, Time0)
  /\ lastCall = NoCall
  /\ mainConns = {}
  /\ mainSent = << >>
  /\ conns = [c \in Conns |-> ClosedConn]
  /\ sseChan = << >>
  /\ opens = [streams |-> 0, messages |-> 0]
  /\ lastSweep = NoSweep
  /\ lastGot = EmptyTable
  /\ outbox = NoOutbox
  /\ sender = IdleSender
  /\ lastSend = NoSend
  /\ sseEnds = NoEnds
  /\ run = NoRun
  /\ life = NoLife
  /\ auth = NoAuth

InitStore == InitStoreVars /\ InitCallers /\ InitProto

NextStore ==
  \/ \E c \in Callers : CallCreate(c)
  \/ \E c \in Callers : CallGet(c)
  \/ \E c \in Callers : CallRemove(c)
  \/ \E c \in Callers : Acquire(c)
  \/ \E c \in Callers : StoreCreate(c)
  \/ \E c \in Callers : StoreGet(c)
  \/ \E c \in Callers : StoreRemoveClose(c)
  \/ \E c \in Callers : StoreRemoveDelete(c)
  \/ NextSecond

SpecStore == InitStore /\ [][NextStore]_vars

Init == InitStoreVars /\ InitCallers /\ InitProto

Next ==
  \/ Receive
  \/ StreamablePost
  \/ StreamableGet
  \/ StreamableDelete
  \/ LegacyPost
  \/ Deliver
  \/ StreamTimeout
  \/ StreamChanClosed
  \/ NextSecond

Spec == Init /\ [][Next]_vars

NextMain ==
  \/ ReceiveMain
  \/ MainPost
  \/ MainDelete
  \/ PartDelete
  \/ Deliver

SpecMain == Init /\ [][NextMain]_vars

NextRace ==
  \/ \E s \in Slots : RaceBegin(s)
  \/ \E s \in Slots : RaceCreate(s)
  \/ \E s \in Slots : RaceStore(s)
  \/ \E s \in Slots : RaceLoad(s)
  \/ \E s \in Slots : RaceDelete(s)
  \/ NextSecond

SpecRace == Init /\ [][NextRace]_vars

NextOutbox ==
  \/ OutboxCreate
  \/ OutboxRemove
  \/ SendLookup
  \/ SendSelect
  \/ SendReturn
  \/ OutboxRecv

SpecOutbox == Init /\ [][NextOutbox]_vars

NextSseClose ==
  \/ handleInitialize
  \/ handleSSEOpen
  \/ handleSSEDone
  \/ MainSseChanClosed

SpecSseClose == Init /\ [][NextSseClose]_vars

NextRun ==
  \/ RunStart
  \/ RunClock
  \/ RunTick
  \/ RunCancel

SpecRun == Init /\ [][NextRun]_vars

\* time passes and the loop, which polls every 10ms, takes a waiting tick
SpecRunFair == SpecRun /\ WF_vars(RunClock) /\ WF_vars(RunTick)

NextLife ==
  \/ LifeOpen
  \/ LifeProduce
  \/ LifeBreak
  \/ LifeTick
  \/ LoopRecv
  \/ LoopPing
  \/ LoopChanClosed
  \/ LoopDone
  \/ GuardTimeout
  \/ LifeDelete

SpecLife == Init /\ [][NextLife]_vars

\* the stream among the callers that create and remove sessions
NextServer ==
  \/ (life.pc = "none" /\ SweepCreate)
  \/ NextSecond
  \/ LifeOpen
  \/ LifeProduce
  \/ LifeTick
  \/ LoopRecv
  \/ LoopChanClosed
  \/ LoopDone
  \/ GuardTimeout
  \/ LifeDelete

\* the goroutines are scheduled and time passes
LifeFairness ==
  /\ WF_vars(NextSecond) /\ WF_vars(LifeTick) /\ WF_vars(GuardTimeout)
  /\ WF_vars(LoopRecv) /\ WF_vars(LoopChanClosed) /\ WF_vars(LoopDone)

\* the server as main wires it: nothing calls CleanupExpiredSessions
SpecServer == Init /\ [][NextServer]_vars /\ LifeFairness

\* the same with a caller of CleanupExpiredSessions
NextClose == NextServer \/ LifeSweep

SpecClose == Init /\ [][NextClose]_vars

SpecCloseFair == SpecClose /\ LifeFairness

NextAuth ==
  \/ ReceiveAuth
  \/ McpPost
  \/ Deliver
  \/ NextSecond

SpecAuth == Init /\ [][NextAuth]_vars

NextLog ==
  \/ LogStore
  \/ LogRead

SpecLog == Init /\ [][NextLog]_vars

NextMainSse ==
  \/ MainSsePost
  \/ MainSseGet
  \/ MainSseDisconnect
  \/ MainSseChanClosed

SpecMainSse == Init /\ [][NextMainSse]_vars

NextStream ==
  \/ \E c \in Conns : StreamOpen(c)
  \/ \E c \in Conns : StreamInitial(c)
  \/ Produce
  \/ \E c \in Conns : StreamRecv(c)
  \/ \E c \in Conns : StreamStoreWrite(c)
  \/ \E c \in Conns : StreamDone(c)

SpecStream == Init /\ [][NextStream]_vars

NextSweep ==
  \/ SweepCreate
  \/ SweepGet
  \/ Sweep
  \/ NextSecond

SpecSweep == Init /\ [][NextSweep]_vars

NextMcp ==
  \/ ReceiveMcp
  \/ McpPost
  \/ Deliver
  \/ NextSecond

SpecMcp == Init /\ [][NextMcp]_vars

NextBatch ==
  \/ ReceiveBatch
  \/ StreamableBatchPost
  \/ DeliverBatch
  \/ StreamTimeout

SpecBatch == Init /\ [][NextBatch]_vars

(* ------------------------------ claims --------------------------------- *)
(* C1: no two CreateSession calls return the same session id, and          *)
(* CreateSession never replaces an entry that is already in the table.     *)
C1_UniqueIdsNoReplace ==
  /\ \A i, j \in 1..Len(created) : i # j => created[i] # created[j]
  /\ ~replaced

(* C2: a GetSession(id) that begins after a RemoveSession(id) has returned *)
(* reports not-found, and a GetSession racing a RemoveSession returns      *)
(* either the complete session or not-found.                               *)
C2_GetAfterRemoveNotFound ==
  \A c \in Callers :
    (callers[c].pc = "ret" /\ callers[c].op = "get") =>
      /\ callers[c].afterRemove => ~callers[c].found
      /\ callers[c].found => (callers[c].ret = callers[c].arg /\ ~callers[c].torn)

(* ---- exchanges the claims speak of ---- *)
Done == last.phase = "done"

FiberPosts == {"streamable_post", "legacy_post"}

\* a request or notification with a method, acceptable to the endpoint
Dispatchable == HasMethod(last.msg) /\ last.accept # "none"

\* a tools/list request as a client would send it next
ToolsListProbe == [method |-> "tools/list", id |-> 1, tool |-> "none"]

(* C3: an initialize request that arrives with a non-empty Mcp-Session-Id
   header is answered with an InvalidRequest error carrying the request's id,
   and the handler creates no session. *)
C3_InitializeWithSessionRejected ==
  (/\ Done
   /\ last.ep \in FiberPosts
   /\ Dispatchable
   /\ IsInitialize(last.msg)
   /\ HasID(last.msg)
   /\ last.hdr # NoSession)
  => /\ last.out.kind = "error"
     /\ last.out.code = InvalidRequest
     /\ last.out.id = last.msg.id
     /\ last.made = 0

(* C4: an initialize request without Mcp-Session-Id succeeds, and at the
   moment the handler returns, a tools/list request carrying any session id
   the reply names (or the id the initialize created) gets the tool catalog:
   no notifications/initialized is needed in between. *)
C4_InitializeUsableAtOnce ==
  [][(/\ last.phase = "req"
      /\ last'.phase = "done"
      /\ last.ep \in FiberPosts
      /\ Dispatchable
      /\ IsInitialize(last.msg)
      /\ HasID(last.msg)
      /\ last.hdr = NoSession)
     => /\ last'.status = 200
        /\ last'.resp = Result(last.msg.id, "init")
        /\ last'.initSid # NoSession
        /\ \A sid \in {last'.initSid, last'.respHdr, last'.bodySid} \ {NoSession} :
             handleJSONRPCMessage(ToolsListProbe, sid \in DOMAIN sessions', TRUE)
               = Result(ToolsListProbe.id, "tools")]_vars

\* an initialize request without a session id has been answered
C4_Witness ==
  /\ Done
  /\ last.ep \in FiberPosts
  /\ Dispatchable
  /\ IsInitialize(last.msg)
  /\ HasID(last.msg)
  /\ last.hdr = NoSession
  /\ last.status = 200
  /\ last.respHdr # NoSession
  /\ last.respHdr \in DOMAIN sessions

(* C5: for every successful initialize handled by the Streamable HTTP POST
   endpoint, answered as JSON or on an SSE stream, the Mcp-Session-Id response
   header and result.sessionId name the same session, the one this initialize
   created. *)
C5_HeaderAndBodyNameCreatedSession ==
  (/\ Done
   /\ last.ep = "streamable_post"
   /\ IsInitialize(last.msg)
   /\ HasID(last.msg)
   /\ last.status = 200
   /\ last.out.kind = "result")
  => /\ last.initSid # NoSession
     /\ last.respHdr = last.initSid
     /\ last.bodySid = last.initSid

(* C6: when initialize requests are handled concurrently, each response
   carries the id of the session its own request created: never the id
   created by another request, and never no id at all. *)
C6_ConcurrentInitializeOwnId ==
  \A s \in Slots :
    slots[s].pc = "done" => (slots[s].loaded /\ slots[s].got = slots[s].mine)

(* C7: after a DELETE carrying a live session id has returned, every later
   request with that id is answered with a SessionNotFound error carrying the
   request's id, for the rest of the execution. *)
C7_DeletedIdNeverResolves ==
  (/\ Done
   /\ last.ep \in FiberPosts
   /\ Dispatchable
   /\ ~IsInitialize(last.msg)
   /\ HasID(last.msg)
   /\ last.hdr \in deleted)
  => /\ last.out.kind = "error"
     /\ last.out.code = SessionNotFound
     /\ last.out.id = last.msg.id

(* C8: DELETE returns status 204 whether the session id is live, already
   removed or never existed, and a DELETE with an id that is not live leaves
   the session table unchanged. *)
C8_DeleteIdempotent204 ==
  (Done /\ last.ep \in {"streamable_delete", "main_delete", "part_delete"}
        /\ last.hdr # NoSession)
  => /\ last.status = 204
     /\ ~last.hdrLive => ~last.changed

\* a tools/call request for an unregistered tool has reached the dispatcher
UnknownToolCall ==
  /\ Done
  /\ last.ep \in FiberPosts
  /\ last.called
  /\ last.msg.method = "tools/call"
  /\ last.msg.tool = "unknown_tool"
  /\ HasID(last.msg)

(* C9 as amended: a tools/call request whose params.name is not a registered
   tool yields a MethodNotFound error echoing the request's id when its
   session id resolves to a live session; when the id does not resolve the
   dispatcher answers with a SessionNotFound error echoing the request's id. *)
C9_UnknownToolBySessionState ==
  UnknownToolCall =>
    IF last.hdrLive
      THEN last.resp = Error(last.msg.id, MethodNotFound, "Tool not found")
      ELSE last.resp = Error(last.msg.id, SessionNotFound, "Session not found")

\* an unregistered tool was called in a live session
C9_Witness == UnknownToolCall /\ last.hdrLive /\ last.status = 200

(* C9 as stated: a tools/call request whose params.name is not a registered
   tool yields a MethodNotFound error echoing the request's id in every
   session state, also when the session id does not resolve. *)
C9_UnknownToolAlwaysMethodNotFound ==
  UnknownToolCall =>
    /\ last.resp.kind = "error"
    /\ last.resp.code = MethodNotFound
    /\ last.resp.id = last.msg.id

(* C10: for every message other than initialize whose session id does not
   resolve (unknown, removed or missing), on every POST endpoint: with an id
   the reply is a session-not-found error carrying that id, without an id the
   message is dropped and the reply has no error body. *)
C10_UnresolvedSessionReply ==
  (/\ Done
   /\ last.ep \in FiberPosts
   /\ Dispatchable
   /\ ~IsInitialize(last.msg)
   /\ ~last.hdrLive)
  => IF HasID(last.msg)
       THEN /\ last.out.kind = "error"
            /\ last.out.code = SessionNotFound
            /\ last.out.id = last.msg.id
       ELSE last.body = "none"

(* C11: no message without an id ever produces a response payload, whatever
   its method, also when the method is initialize. *)
C11_NotificationNoPayload ==
  (/\ Done
   /\ last.ep \in FiberPosts
   /\ last.accept # "none"
   /\ ~HasID(last.msg))
  => last.body = "none"

(* C12: the reply to an array body holds exactly one response per request of
   the array (a message with both id and method), in input order, and none
   for a notification or a response; one response is sent as a bare object,
   more than one as an array. *)
RequestIds(msgs) ==
  LET idx == {i \in 1..Len(msgs) : IsRequest(msgs[i])}
  IN [k \in 1..Cardinality(idx) |->
        msgs[CHOOSE i \in idx : Cardinality({j \in idx : j <= i}) = k].id]

C12_OneResponsePerRequest ==
  (/\ batch.phase = "done"
   /\ batch.status = 200
   /\ hasRequests(batch.msgs))
  => /\ [k \in 1..Len(batch.outs) |-> batch.outs[k].id] = RequestIds(batch.msgs)
     /\ batch.body = "json" => Len(batch.outs) = 1
     /\ batch.body = "array" => Len(batch.outs) > 1

(* C13: on every JSON-RPC POST endpoint a body without a request (no message
   has both id and method) is answered with status 202 and no body. The
   initialize message without id, which C11 is about, is left aside here. *)
C13_NoRequest202 ==
  (/\ Done
   /\ last.ep \in FiberPosts \cup {"mcp_post"}
   /\ ~(last.ep = "streamable_post" /\ last.accept = "none")
   /\ ~IsRequest(last.msg)
   /\ ~IsInitialize(last.msg))
  => (last.status = 202 /\ last.body = "none")

(* C14: the event log never holds more than maxEvents = 100 entries, and
   after maxEvents + k StoreEvent calls GetEventsAfter(0) returns exactly
   the last maxEvents events, oldest first, numbered k+1 .. maxEvents+k. *)
C14_LogKeepsLastM ==
  /\ Len(evlog.storedEvents) <= MaxEvents
  /\ evlog.eventCounter >= MaxEvents =>
       LET k == evlog.eventCounter - MaxEvents
       IN GetEventsAfter(evlog, 0) =
            [i \in 1..MaxEvents |-> [ID |-> k + i, Data |-> Payload(k + i)]]

C14_Witness ==
  /\ evlog.eventCounter = MaxEvents + 2
  /\ Len(evlog.storedEvents) = MaxEvents
  /\ evlog.storedEvents[1].ID = 3

(* C16: GetEventsAfter(x) returns exactly the retained events with an id
   greater than x, oldest first, and leaves the log as it was; the result is
   empty when x is at or beyond the newest id, and it is the whole retained
   log when x is older than the oldest retained id. *)
C16_GetEventsAfterExact ==
  lastCall.op = "read" =>
    LET r   == lastCall.events
        x   == lastCall.arg
        log == lastCall.before
        later == {i \in 1..Len(log) : log[i].ID > x}
    IN /\ evlog.storedEvents = log
       /\ Len(r) = Cardinality(later)
       /\ {r[i] : i \in 1..Len(r)} = {log[i] : i \in later}
       /\ \A i, j \in 1..Len(r) : i < j => r[i].ID < r[j].ID
       /\ x >= evlog.eventCounter => r = << >>
       /\ (log # << >> /\ x < log[1].ID) => r = log

C16_Witness ==
  /\ lastCall.op = "read"
  /\ evlog.eventCounter = MaxEvents + 2
  /\ lastCall.arg = 50
  /\ Len(lastCall.events) = 52
  /\ lastCall.events[1].ID = 51

(* C15: no two events of one session are ever sent with the same id, also
   across successive stream connections. *)
C15_NoIdSentTwice ==
  \A i, j \in 1..Len(mainSent) :
    (i < j /\ mainSent[i].sid = mainSent[j].sid)
      => mainSent[i].id # mainSent[j].id

(* C17: a stream opened with a Last-Event-Id that parses as the number m
   first writes every event retained at that time with an id greater than m,
   in ascending id order, also for m = 0; a stream opened without the header
   replays nothing. *)
C17_ReplayOnEveryMarker ==
  \A c \in Conns :
    LET k == conns[c]
    IN /\ k.marker.kind = "num" =>
            SubSeq(k.frames, 1, k.replayed)
              = Frames(SelectSeq(k.openLog, LAMBDA e : e.ID > k.marker.n))
       /\ k.marker.kind = "none" => k.replayed = 0

(* C18: on a stream opened with Last-Event-Id x no id is written twice and no
   event with an id greater than x is left out: the ids written are x+1, x+2,
   ... without a gap. Stated for x >= 1; the markers below 1 are C17's. *)
C18_NoDuplicateNoSkip ==
  \A c \in Conns :
    LET k == conns[c]
    IN (k.marker.kind = "num" /\ k.marker.n >= 1) =>
         /\ \A i, j \in 1..Len(k.frames) :
              i < j => k.frames[i].id # k.frames[j].id
         /\ \A i \in 1..Len(k.frames) : k.frames[i].id = k.marker.n + i

(* C19: on one stream the ids of the frames written are strictly increasing,
   and every frame carries the id under which its payload is stored in the
   session's event log. *)
C19_StreamInStoredOrder ==
  \A c \in Conns :
    LET f == conns[c].frames
    IN /\ \A i, j \in 1..Len(f) : i < j => f[i].id < f[j].id
       /\ \A i \in 1..Len(f) :
            \E e \in 1..Len(evlog.storedEvents) :
              evlog.storedEvents[e] = [ID |-> f[i].id, Data |-> f[i].data]

C19_Witness ==
  \E c \in Conns :
    /\ conns[c].pc = "loop"
    /\ conns[c].replayed >= 1
    /\ Len(conns[c].frames) >= conns[c].replayed + 2
    /\ conns[c].frames[Len(conns[c].frames)].data = MessagePayload(1)

(* C20: a CleanupExpiredSessions(maxAge) call removes exactly the sessions
   whose last activity lies more than maxAge back and leaves every other
   session as it was; after it GetSession on a removed id reports not-found
   and changes nothing, as it does for an id that never existed; a session
   whose last successful GetSession lies less than maxAge back is kept. *)
C20_SweepRemovesExactlyExpired ==
  [][lastSweep' # lastSweep =>
       LET maxAge == lastSweep'.maxAge
           old    == {id \in DOMAIN sessions :
                        Sub(clock, sessions[id].LastActivity) > maxAge}
           after  == [Store EXCEPT !.tbl = sessions', !.closed = closedChans']
       IN /\ DOMAIN sessions' = (DOMAIN sessions) \ old
          /\ \A id \in DOMAIN sessions' : sessions'[id] = sessions[id]
          /\ \A id \in old :
               /\ sessions[id].obj \in closedChans'
               /\ GetSession(after, id) = after
               /\ GetSession(after, UnknownSession) = after
          /\ \A id \in (DOMAIN sessions) \cap (DOMAIN lastGot) :
               Sub(clock, lastGot[id]) < maxAge => id \in DOMAIN sessions'
          /\ clock' = clock
  ]_vars

C20_Witness ==
  /\ lastSweep.n >= 1
  /\ lastSweep.maxAge = RandomLen
  /\ lastSweep.gone # {}
  /\ \E id \in lastSweep.kept :
       /\ id \in DOMAIN lastGot
       /\ Sub(lastSweep.now, lastGot[id]) < lastSweep.maxAge
       /\ id \in DOMAIN sessions

\* C21: an enqueue that races with RemoveSession fails or does nothing; it
\* never raises a fault such as a send on a closed channel.
C21_EnqueueNeverFaults == sender.pc # "panicked"

\* C22: an enqueue onto an outbox that holds 100 messages returns the
\* channel-full error and leaves the content as it was, and the outbox never
\* holds more than 100 messages.
C22_FullOutboxRefuses ==
  /\ Len(outbox.buf) <= OutboxCap
  /\ (lastSend.n > 0 /\ Len(lastSend.before) = OutboxCap)
       => /\ lastSend.res = "channel full"
          /\ lastSend.after = lastSend.before

\* C23: a stream that ends because the client disconnected removes its
\* session exactly if the session was created for that connection; a session
\* made by an explicit initialize is never removed by a stream ending.
C23_DisconnectRemovesOnlyAuto ==
  sseEnds.last.n > 0 =>
    /\ sseEnds.last.removed => sseEnds.last.auto
    /\ sseEnds.last.sid \in sseEnds.explicit => ~sseEnds.last.removed

\* C24: a run that reaches its deadline has emitted one start notification,
\* then progress notifications numbered 1..n, then one result whose
\* total_samples is n, and nothing after the result; with duration 4s and
\* interval 1s, n is at least 3.
C24_StartProgressResult ==
  LET out == run.out
      len == Len(out)
      n   == len - 2
  IN /\ \A k \in 1..len :
          out[k].kind = "result" => k = len /\ run.pc = "done"
     /\ (len > 0 /\ out[len].kind = "result") =>
          /\ out[1].kind = "start"
          /\ \A k \in 1..n : /\ out[k + 1].kind = "progress"
                             /\ out[k + 1].iteration = k
          /\ out[len].total = n
          /\ (run.duration.text = "4s" /\ run.interval.text = "1s") => n >= 3

C24_Witness ==
  /\ run.pc = "done"
  /\ run.duration.text = "4s" /\ run.interval.text = "1s"
  /\ Len(run.out) = 5
  /\ run.out[5] = RunFrame("result", 0, FALSE, 3)

\* C25: when the client disconnects before the deadline, the run emits
\* nothing after the cancellation: it has written what it had written then.
C25_CancelStopsRun == run.cancelled => Len(run.out) = run.cancelAt

\* C26: a failed collection at a tick gives a progress notification with
\* that tick's iteration and an error, and the run goes on: it ends only
\* with the result at the deadline, which it reaches.
C26_FailureReportedRunGoesOn ==
  /\ [](\A i \in run.failed :
          /\ i + 1 <= Len(run.out)
          /\ run.out[i + 1] = RunFrame("progress", i, TRUE, 0))
  /\ []((run.failed # {} /\ run.pc # "loop") =>
          /\ run.pc = "done"
          /\ run.out[Len(run.out)] = RunFrame("result", 0, FALSE, run.iteration))
  /\ ((run.failed # {}) ~> (run.pc = "done"))

C26_Witness ==
  /\ run.pc = "done"
  /\ run.failed = {1}
  /\ Len(run.out) >= 4
  /\ run.out[2] = RunFrame("progress", 1, TRUE, 0)
  /\ run.out[3] = RunFrame("progress", 2, FALSE, 0)
  /\ run.out[Len(run.out)].kind = "result"

\* C27: a call whose duration or interval argument is not a valid duration
\* string gets the error at once: no start, no progress, no result, and no
\* metrics are collected.
C27_InvalidDurationIsError ==
  LET invalid(a) == /\ a.kind # "absent"
                    /\ ~(a.kind = "string" /\ ParseDuration(a.text).ok)
  IN (run.pc # "idle" /\ (invalid(run.duration) \/ invalid(run.interval))) =>
       /\ run.pc = "done"
       /\ run.out = <<RunFrame("error", 0, TRUE, 0)>>
       /\ run.collected = 0

\* C28: every frame a run emits is stored in the event log of the owning
\* session, so that GetEventsAfter returns it while it is retained.
C28_RunOutputInEventLog ==
  \A k \in 1..Len(run.out) :
    \E e \in 1..Len(evlog.storedEvents) :
      /\ evlog.storedEvents[e].Data = run.out[k]
      /\ evlog.storedEvents[e] \in
           {GetEventsAfter(evlog, 0)[j] : j \in 1..Len(GetEventsAfter(evlog, 0))}

\* C29: a request other than initialize whose Mcp-Session-Id names no live
\* session is answered with status 404 and the session-not-found error;
\* opening a stream with such an id is answered 404 and creates no session.
C29_UnknownSession404 ==
  (Done /\ last.hdr # NoSession /\ ~last.hdrLive /\ last.accept # "none") =>
    /\ (/\ last.ep \in FiberPosts
        /\ IsRequest(last.msg)
        /\ ~IsInitialize(last.msg))
         => /\ last.status = 404
            /\ last.out.kind = "error"
            /\ last.out.code = SessionNotFound
            /\ last.out.id = last.msg.id
    /\ last.ep = "streamable_get" => (last.status = 404 /\ last.made = 0)

\* C30: every message with both an id key and a method key gets exactly one
\* response that carries its id, an error response if it cannot be handled,
\* also when the value of method is not a string.
C30_EveryRequestAnswered ==
  (/\ Done
   /\ last.ep \in FiberPosts
   /\ last.accept # "none"
   /\ IsRequest(last.msg))
  => /\ last.out.kind \in {"result", "error"}
     /\ last.out.id = last.msg.id

\* C33: at every moment at most one stream loop receives from the outbox of
\* a session: a POST answered as a stream does not read the channel that
\* the session's open GET stream reads.
C33_OneReceiverPerOutbox ==
  Cardinality({c \in Conns : conns[c].pc \in {"loop", "holding"}}) <= 1

\* C35: a streaming-tool call whose duration and interval both parse, zero
\* included, returns an error or runs to its result; it never raises a fault.
C35_ParsedArgumentsNeverFault ==
  LET text(a, default) == IF a.kind = "string" /\ a.text # ""
                            THEN a.text ELSE default
  IN (/\ run.pc # "idle"
      /\ ParseDuration(text(run.duration, "30s")).ok
      /\ ParseDuration(text(run.interval, "2s")).ok)
     => run.pc \in {"loop", "done"}

\* C39: a POST message creates at most one session: an initialize request
\* that succeeds creates exactly one, however its response is delivered, and
\* no other POST message creates any.
C39_PostCreatesAtMostOne ==
  (Done /\ last.ep = "streamable_post") =>
    /\ last.made <= 1
    /\ (IsInitialize(last.msg) /\ last.resp.kind = "result") => last.made = 1
    /\ ~IsInitialize(last.msg) => last.made = 0

\* C40: the last-created-session cell is empty whenever no initialize is
\* being handled, and the reply to a request other than initialize carries
\* no Mcp-Session-Id header.
C40_CellEmptyBetweenInitializes ==
  /\ last.phase # "req" => cell = NoSession
  /\ (Done /\ ~IsInitialize(last.msg) /\ last.ep \in FiberPosts \cup {"mcp_post"})
       => last.respHdr = NoSession


(* C31: when writing a frame to the client fails the stream loop stops: it
   takes no further message from the session's outbox after the failed
   write. *)
C31_FailedWriteStopsLoop == ~life.afterFail

(* C32: the safety timeout closes a stream only after a full timeout period
   without activity: when done is closed, the last event the stream wrote
   lies at least a timeout period back. *)
C32_TimeoutOnlyWhenIdle ==
  (life.done > 0 /\ life.lastWrite # << >>)
    => life.elapsed - life.lastWrite[1] >= TimeoutPeriods

(* C34: the running server never keeps an idle session forever: no created
   session stays in the table, without a lookup since the clock last moved,
   from some moment on. *)
C34_IdleSessionsGoAway ==
  \A i \in 1..MaxMade :
    []<>~(/\ Len(created) >= i
          /\ created[i] \in DOMAIN sessions
          /\ Sub(clock, sessions[created[i]].LastActivity) > 0)

(* C37: under every interleaving of DELETE, the expiry sweep and the
   stream's timeout cleanup no Close finds the outbox channel closed, every
   entry left in the table has an open channel (the close and the delete of
   an entry happen together, once), and done is closed at most once. *)
C37_ClosedExactlyOnce ==
  /\ ~life.closedTwice
  /\ \A id \in DOMAIN sessions : sessions[id].obj \notin closedChans
  /\ life.done <= 1

C37_Witness ==
  /\ life.auto
  /\ life.deletes
  /\ life.sweeps >= 1
  /\ life.guard = "returned"
  /\ life.obj \in closedChans

(* C38: once the session of a stream is removed, the stream loop eventually
   returns and the stream's timeout goroutine eventually returns. *)
C38_RemovedSessionEndsStream ==
  /\ (life.pc = "loop" /\ life.sid \notin DOMAIN sessions)
       ~> (life.pc = "returned")
  /\ (life.guard = "waiting" /\ life.sid \notin DOMAIN sessions)
       ~> (life.guard = "returned")

C38_Witness ==
  /\ ~life.auto
  /\ life.obj \in closedChans
  /\ life.pc = "returned"
  /\ life.guard = "returned"


(* C36: a request to an /mcp endpoint reaches the JSON-RPC handlers only if
   it presents the configured shared secret in X-API-Key; every other
   request is answered 401 and changes no session state. *)
C36_OnlyWithSharedSecret ==
  (auth.path = McpPath /\ auth.apiKey # APIKey) =>
    /\ ~auth.passed
    /\ last.phase = "done" => (last.status = 401 /\ ~last.changed)

====
